---- MODULE Spec2Model ----
(***************************************************************************)
(* Service placement and request routing strategies of IcarusEdgeSim       *)
(* (icarus/models/strategy/service.py): COORDINATED, LRU, HYBRID, MFU and  *)
(* SDF, together with the scheduler, compute spot, view and controller     *)
(* they call.  Times, delays and service times are integers.               *)
(***************************************************************************)
EXTENDS Integers, Sequences, FiniteSets, TLC

\* ------------------------------------------------------------------------
\* Status codes and admission results (service.py lines 25-33)
\* ------------------------------------------------------------------------
REQUEST == 0
RESPONSE == 1
TASK_COMPLETE == 2
DEADLINE_MISSED == 0
CONGESTION == 1
SUCCESS == 2
CLOUD == 3
NO_INSTANCES == 4

\* ------------------------------------------------------------------------
\* Bounds of the model
\* ------------------------------------------------------------------------
\* number of requests the workload issues
MaxFlows == 3
\* largest distance in time between two consecutive workload requests
MaxGap == 1
\* number of requests the workload issues under HYBRID, MFU, SDF and LRU
EdgeFlows == 2

NoTime == -1
NoNode == -1

Max(a, b) == IF a >= b THEN a ELSE b
Min(a, b) == IF a <= b THEN a ELSE b
Reverse(s) == [i \in 1..Len(s) |-> s[Len(s) + 1 - i]]
InSeq(x, s) == \E i \in 1..Len(s) : s[i] = x
RemoveAt(s, i) == SubSeq(s, 1, i - 1) \o SubSeq(s, i + 1, Len(s))
\* Python's path[k:] on a 0-based list
PySliceFrom(path, k) == SubSeq(path, k + 1, Len(path))

\* ------------------------------------------------------------------------
\* View: topology and service catalogue.
\*   cloud 0 (depth 0) - node 1 (depth 1) - node 2 (depth 2)
\*   receivers rcv_0, rcv_1 below node 2, receiver rcv_2 below node 1
\* Receivers "rcv_<i>" are the node ids 10 + i.
\* ------------------------------------------------------------------------
Services == {0, 1, 2}
ServiceTime == (0 :> 2) @@ (1 :> 1) @@ (2 :> 1)
ServiceDeadline == (0 :> 8) @@ (1 :> 4) @@ (2 :> 12)
\* the services the bounded workload requests
WorkloadServices == {0, 1}
CloudNode == 0
CompNodes == {0, 1, 2}
EdgeNodes == {1, 2}
Receivers == {10, 11, 12}
Flows == 1..MaxFlows
Parent == (1 :> 0) @@ (2 :> 1) @@ (10 :> 2) @@ (11 :> 2) @@ (12 :> 1)
UpLinkDelay == (1 :> 2) @@ (2 :> 1) @@ (10 :> 1) @@ (11 :> 2) @@ (12 :> 1)
Depth == (0 :> 0) @@ (1 :> 1) @@ (2 :> 2) @@ (10 :> 3) @@ (11 :> 3) @@ (12 :> 2)
Height == 3
NumVMs == (1 :> 2) @@ (2 :> 2)
NumCores == (1 :> 1) @@ (2 :> 2)
ServicePopulationSize == 3

IsCloud(n) == n = CloudNode
\* int(recv[4:])
RecvIndex(recv) == recv - 10
content_source(service) == CloudNode

RECURSIVE Chain(_)
Chain(n) == IF n \in DOMAIN Parent THEN <<n>> \o Chain(Parent[n]) ELSE <<n>>

TreePath(a, b) ==
    LET ca == Chain(a)
        cb == Chain(b)
        i == CHOOSE k \in 1..Len(ca) :
                 InSeq(ca[k], cb) /\ \A j \in 1..(k - 1) : ~InSeq(ca[j], cb)
        m == CHOOSE k \in 1..Len(cb) : cb[k] = ca[i]
    IN SubSeq(ca, 1, i) \o Reverse(SubSeq(cb, 1, m - 1))

\* a link delay read at the sending end whatever the direction
link_delay_of_sender(u, v) ==
    IF u \in DOMAIN UpLinkDelay THEN UpLinkDelay[u] ELSE UpLinkDelay[v]

link_delay(u, v) ==
    IF u \in DOMAIN Parent /\ Parent[u] = v THEN UpLinkDelay[u] ELSE UpLinkDelay[v]

RECURSIVE PathSum(_)
PathSum(p) ==
    IF Len(p) < 2 THEN 0 ELSE link_delay(p[1], p[2]) + PathSum(Tail(p))

\* the view's precomputed shortest-path and path-delay tables
AllNodes == CompNodes \cup Receivers
PathTable == [a \in AllNodes |-> [b \in AllNodes |-> TreePath(a, b)]]
DelayTable == [a \in AllNodes |-> [b \in AllNodes |-> PathSum(TreePath(a, b))]]
shortest_path(a, b) == PathTable[a][b]
path_delay(a, b) == DelayTable[a][b]

\* ------------------------------------------------------------------------
\* State
\* ------------------------------------------------------------------------
VARIABLES
    strategy,                 \* which registered strategy runs
    replacement_interval,     \* self.replacement_interval
    pyRound,                  \* "half_up" (Python 2 round) or "half_even" (Python 3)
    n_replacements,           \* self.n_replacements (HYBRID, MFU, SDF)
    lru_p,                    \* self.p (LRU), in quarters: 0, 2 or 4 for 0, 0.5, 1.0
    lruCache,                 \* the controller's per-node LRU cache of services
    last_replacement,         \* self.last_replacement
    now,                      \* time of the last delivered event
    events,                   \* controller event queue, by time, FIFO on ties
    fault,                    \* "none", or the fault that halted the simulation
    numberOfServiceInstances, \* cs.numberOfServiceInstances[service] per edge node
    numVMsPerService,         \* Coordinated.numVMsPerService
    serviceNodeUtil,          \* Coordinated.serviceNodeUtil[recv][node][service]
    taskQueue,                \* cs.scheduler._taskQueue per edge node
    upcomingTaskQueue,        \* cs.scheduler.upcomingTaskQueue per edge node
    coreFinishTime,           \* busy_until of every core per edge node
    running_requests,         \* cs.running_requests
    missed_requests,          \* cs.missed_requests
    deadline_metric,          \* self.deadline_metric[node][service], a fraction
    cand_deadline_metric,     \* self.cand_deadline_metric[node][service]
    flows,                    \* number of requests issued so far
    session,                  \* controller session records per flow
    lastPass,                 \* record of the most recent replacement pass
    lastRoute                 \* record of the most recent routing decision

vars == <<strategy, replacement_interval, pyRound, n_replacements, lru_p, lruCache,
          last_replacement, now, events,
          fault, numberOfServiceInstances, numVMsPerService, serviceNodeUtil,
          taskQueue, upcomingTaskQueue, coreFinishTime, running_requests,
          missed_requests, deadline_metric, cand_deadline_metric, flows, session,
          lastPass, lastRoute>>

schedVars == <<taskQueue, upcomingTaskQueue, coreFinishTime>>
metricVars == <<running_requests, missed_requests, deadline_metric, cand_deadline_metric>>
coordVars == <<numVMsPerService, serviceNodeUtil>>
configVars == <<strategy, replacement_interval, pyRound, n_replacements, lru_p>>

\* ------------------------------------------------------------------------
\* Fractions num/den (den > 0) stand for the floats the strategies compute;
\* den = 0 stands for float('inf').
\* ------------------------------------------------------------------------
Frac(n, d) == [num |-> n, den |-> d]
Inf == Frac(1, 0)
FracLess(a, b) ==
    IF a.den = 0 THEN FALSE
    ELSE IF b.den = 0 THEN TRUE
    ELSE a.num * b.den < b.num * a.den
FracAdd(a, b) == Frac(a.num * b.den + b.num * a.den, a.den * b.den)
\* a / n for an integer n > 0
FracDiv(a, n) == Frac(a.num, a.den * n)

\* sorted(items, key=lambda x: x[1]): stable, ascending
RECURSIVE InsertAsc(_, _)
InsertAsc(sorted, x) ==
    IF sorted = <<>> THEN <<x>>
    ELSE IF FracLess(x.key, Head(sorted).key) THEN <<x>> \o sorted
    ELSE <<Head(sorted)>> \o InsertAsc(Tail(sorted), x)

RECURSIVE SortAsc(_)
SortAsc(s) ==
    IF s = <<>> THEN <<>>
    ELSE InsertAsc(SortAsc(SubSeq(s, 1, Len(s) - 1)), s[Len(s)])

\* sorted(items, key=lambda x: x[1], reverse=True): stable, descending
RECURSIVE InsertDesc(_, _)
InsertDesc(sorted, x) ==
    IF sorted = <<>> THEN <<x>>
    ELSE IF FracLess(Head(sorted).key, x.key) THEN <<x>> \o sorted
    ELSE <<Head(sorted)>> \o InsertDesc(Tail(sorted), x)

RECURSIVE SortDesc(_)
SortDesc(s) ==
    IF s = <<>> THEN <<>>
    ELSE InsertDesc(SortDesc(SubSeq(s, 1, Len(s) - 1)), s[Len(s)])

\* the elements of a finite set of integers in ascending order (range(n), dict keys)
RECURSIVE AscSeq(_)
AscSeq(S) ==
    IF S = {} THEN <<>>
    ELSE LET m == CHOOSE x \in S : \A y \in S : x <= y
         IN <<m>> \o AscSeq(S \ {m})

RECURSIVE SumOver(_, _)
SumOver(f, S) ==
    IF S = {} THEN 0
    ELSE LET x == CHOOSE y \in S : TRUE IN f[x] + SumOver(f, S \ {x})

\* ------------------------------------------------------------------------
\* Task and TaskScheduler (icarus.models.service)
\* ------------------------------------------------------------------------
Task(time, deadline, rtt_delay, node, service, service_time, flow_id, receiver, arrivalTime) ==
    [time |-> time, expiry |-> deadline, rtt_delay |-> rtt_delay, node |-> node,
     service |-> service, exec_time |-> service_time, flow_id |-> flow_id,
     receiver |-> receiver, arrivalTime |-> arrivalTime, completionTime |-> NoTime]

\* the core that is free first (lowest index on ties)
NextCore(cores) ==
    CHOOSE c \in 1..Len(cores) :
        \A d \in 1..Len(cores) : cores[c] < cores[d] \/ (cores[c] = cores[d] /\ c <= d)

\* FIFO replay of the tasks over the cores, refreshing every completionTime
RECURSIVE Replay(_, _)
Replay(cores, tasks) ==
    IF tasks = <<>> THEN <<>>
    ELSE LET c == NextCore(cores)
             t == Head(tasks)
             fin == Max(cores[c], t.arrivalTime) + t.exec_time
         IN <<[t EXCEPT !.completionTime = fin]>>
                \o Replay([cores EXCEPT ![c] = fin], Tail(tasks))

compute_completion_times(cores, tq, uq) ==
    LET all == Replay(cores, tq \o uq)
    IN [tq |-> SubSeq(all, 1, Len(tq)), uq |-> SubSeq(all, Len(tq) + 1, Len(all))]

\* index of the earliest-arrival task of uq that has arrived by `time`, 0 if none
EarliestArrived(uq, time) ==
    IF \E i \in 1..Len(uq) : uq[i].arrivalTime <= time
    THEN CHOOSE i \in 1..Len(uq) :
            /\ uq[i].arrivalTime <= time
            /\ \A j \in 1..Len(uq) :
                   uq[j].arrivalTime <= time =>
                       \/ uq[i].arrivalTime < uq[j].arrivalTime
                       \/ (uq[i].arrivalTime = uq[j].arrivalTime /\ i <= j)
    ELSE 0

\* a dispatch that takes one time unit longer than the task's service time
scheduleSlow(cores, tq, uq, time) ==
    LET c == NextCore(cores)
        i == EarliestArrived(uq, time)
        none == [found |-> FALSE, task |-> <<>>, cores |-> cores, tq |-> tq, uq |-> uq]
        run(t, tq1, uq1) ==
            LET fin == Max(cores[c], t.arrivalTime) + t.exec_time + 1
            IN [found |-> TRUE, task |-> [t EXCEPT !.completionTime = fin],
                cores |-> [cores EXCEPT ![c] = fin], tq |-> tq1, uq |-> uq1]
    IN IF cores[c] > time THEN none
       ELSE IF tq # <<>> THEN run(Head(tq), Tail(tq), uq)
       ELSE IF i # 0 THEN run(uq[i], tq, RemoveAt(uq, i))
       ELSE none

\* scheduler.schedule(time): dispatch the next waiting task on a free core
schedule(cores, tq, uq, time) ==
    LET c == NextCore(cores)
        i == EarliestArrived(uq, time)
        none == [found |-> FALSE, task |-> <<>>, cores |-> cores, tq |-> tq, uq |-> uq]
        run(t, tq1, uq1) ==
            LET fin == Max(cores[c], t.arrivalTime) + t.exec_time
            IN [found |-> TRUE, task |-> [t EXCEPT !.completionTime = fin],
                cores |-> [cores EXCEPT ![c] = fin], tq |-> tq1, uq |-> uq1]
    IN IF cores[c] > time THEN none
       ELSE IF tq # <<>> THEN run(Head(tq), Tail(tq), uq)
       ELSE IF i # 0 THEN run(uq[i], tq, RemoveAt(uq, i))
       ELSE none

\* sorted(upcomingTaskQueue, key=lambda x: x.arrivalTime)
RECURSIVE InsertByArrival(_, _)
InsertByArrival(q, t) ==
    IF q = <<>> THEN <<t>>
    ELSE IF t.arrivalTime < Head(q).arrivalTime THEN <<t>> \o q
    ELSE <<Head(q)>> \o InsertByArrival(Tail(q), t)

RECURSIVE SortedByArrival(_)
SortedByArrival(q) ==
    IF q = <<>> THEN <<>>
    ELSE InsertByArrival(SortedByArrival(SubSeq(q, 1, Len(q) - 1)), q[Len(q)])

\* a removal that leaves the queue as it is
RemoveNothing(q, flow_id) == q

\* list.remove(aTask): drop the first element equal to the task (same flow)
RemoveFlow(q, flow_id) ==
    IF \E i \in 1..Len(q) : q[i].flow_id = flow_id
    THEN RemoveAt(q, CHOOSE i \in 1..Len(q) :
                        q[i].flow_id = flow_id /\ \A j \in 1..(i - 1) : q[j].flow_id # flow_id)
    ELSE q

\* ------------------------------------------------------------------------
\* Controller: event queue and sessions
\* ------------------------------------------------------------------------
Event(time, receiver, service, node, flow_id, deadline, rtt_delay, status) ==
    [time |-> time, receiver |-> receiver, service |-> service, node |-> node,
     flow_id |-> flow_id, deadline |-> deadline, rtt_delay |-> rtt_delay,
     status |-> status]

\* controller.add_event: the queue is ordered by time, FIFO among equal times
RECURSIVE add_event(_, _)
add_event(q, e) ==
    IF q = <<>> THEN <<e>>
    ELSE IF e.time < Head(q).time THEN <<e>> \o q
    ELSE <<Head(q)>> \o add_event(Tail(q), e)

NoSession == [started |-> 0, ended |-> 0, deadline |-> NoTime, endTime |-> NoTime,
              node |-> NoNode, notHostedAt |-> NoNode, forwardedBy |-> NoNode]
start_session(ss, time, flow_id, deadline) ==
    [ss EXCEPT ![flow_id].started = @ + 1, ![flow_id].deadline = deadline]
end_session(ss, time, flow_id) ==
    [ss EXCEPT ![flow_id].ended = @ + 1, ![flow_id].endTime = time]

\* ------------------------------------------------------------------------
\* COORDINATED (class Coordinated)
\* ------------------------------------------------------------------------
RecvIndices == {RecvIndex(r) : r \in Receivers}
RecvOfIndex(ap) == CHOOSE r \in Receivers : RecvIndex(r) = ap

ZeroUtil == [ap \in RecvIndices |-> [n \in EdgeNodes |-> [s \in Services |-> 0]]]
ZeroCounts == [n \in EdgeNodes |-> [s \in Services |-> 0]]

\* Coordinated.__init__: round-robin placement of the VMs of a spot
RECURSIVE PlaceVMs(_, _, _)
PlaceVMs(inst, vm, numOfVMs) ==
    IF vm >= numOfVMs THEN inst
    ELSE LET serv == vm % ServicePopulationSize
         IN PlaceVMs([inst EXCEPT ![serv] = @ + 1], vm + 1, numOfVMs)

InitialPlacement ==
    [n \in EdgeNodes |-> PlaceVMs([s \in Services |-> 0], 0, NumVMs[n])]

\* int(round(util / replacement_interval)) for util >= 0
PyRoundDiv(util, interval, mode) ==
    LET q == util \div interval
        r == util % interval
    IN IF 2 * r < interval THEN q
       ELSE IF 2 * r > interval THEN q + 1
       ELSE IF mode = "half_up" THEN q + 1
       ELSE IF q % 2 = 0 THEN q ELSE q + 1

\* int(ceil(util / replacement_interval)) for util >= 0
PyCeilDiv(util, interval) == (util + interval - 1) \div interval

\* every receiver with demand counted, whatever the deadline
ReceiverCountsAnyDeadline(ap, node, service, util) == util[ap][node][service] # 0

\* lines 164-171: utilisation of a service at a node over the receivers that
\* can meet the service's deadline from the node
ReceiverCounts(ap, node, service, util) ==
    /\ util[ap][node][service] # 0
    /\ ServiceDeadline[service] >
           2 * path_delay(RecvOfIndex(ap), node) + ServiceTime[service]

ServiceUtil(node, service, util) ==
    SumOver([ap \in RecvIndices |->
                IF ReceiverCounts(ap, node, service, util)
                THEN util[ap][node][service] ELSE 0], RecvIndices)

\* the services of a node ordered from the lowest utilisation to the highest
service_utils_sorted_ascending(node, util) ==
    SortAsc([i \in 1..Cardinality(Services) |->
                [id |-> AscSeq(Services)[i],
                 key |-> Frac(ServiceUtil(node, AscSeq(Services)[i], util), 1)]])

service_utils_sorted(node, util) ==
    SortDesc([i \in 1..Cardinality(Services) |->
                [id |-> AscSeq(Services)[i],
                 key |-> Frac(ServiceUtil(node, AscSeq(Services)[i], util), 1)]])

\* lines 186-193 and 217-224: zero the demand of every receiver that has demand
\* for the service at the node, along its path up to the node
ZeroAlongPaths(util, node, service) ==
    [ap \in RecvIndices |->
        IF util[ap][node][service] = 0 THEN util[ap]
        ELSE LET path == PySliceFrom(shortest_path(RecvOfIndex(ap), node), 1)
             IN [n \in EdgeNodes |->
                    IF InSeq(n, path) THEN [util[ap][n] EXCEPT ![service] = 0]
                    ELSE util[ap][n]]]

\* lines 183-200: first allocation pass, st = [inst, util, rem]
RECURSIVE FirstPass(_, _, _, _)
FirstPass(sorted, k, node, st) ==
    IF k > Len(sorted) THEN st
    ELSE LET service == sorted[k].id
             num_vms == PyRoundDiv(sorted[k].key.num, replacement_interval, pyRound)
             util1 == IF st.rem > 0 /\ num_vms > 0
                      THEN ZeroAlongPaths(st.util, node, service) ELSE st.util
             given == Min(num_vms, st.rem)
             st1 == [inst |-> [st.inst EXCEPT ![service] = given],
                     util |-> util1, rem |-> st.rem - given]
         IN IF st1.rem = 0 THEN st1 ELSE FirstPass(sorted, k + 1, node, st1)

\* lines 203-228: one sweep of the second pass, st = [inst, util, rem, added]
RECURSIVE SecondSweep(_, _, _, _)
SecondSweep(sorted, k, node, st) ==
    IF k > Len(sorted) THEN st
    ELSE LET service == sorted[k].id
             num_vms == Min(PyCeilDiv(sorted[k].key.num, replacement_interval), st.rem)
             st1 == IF st.inst[service] > 0
                    THEN [st EXCEPT !.inst[service] = @ + 1, !.rem = @ - 1,
                                    !.added = TRUE]
                    ELSE IF num_vms > 0
                    THEN [inst |-> [st.inst EXCEPT ![service] = num_vms],
                          util |-> ZeroAlongPaths(st.util, node, service),
                          rem |-> st.rem - num_vms, added |-> TRUE]
                    ELSE st
         IN IF st1.rem = 0 THEN st1 ELSE SecondSweep(sorted, k + 1, node, st1)

\* lines 201-230: while remaining_vms > 0
RECURSIVE SecondPass(_, _, _)
SecondPass(sorted, node, st) ==
    IF st.rem > 0
    THEN LET r == SecondSweep(sorted, 1, node, [st EXCEPT !.added = FALSE])
         IN IF r.added THEN SecondPass(sorted, node, r) ELSE r
    ELSE st

\* the allocation of one node started with one VM more than the spot has
ReplaceAtNodeOverfull(node, ps) ==
    LET sorted == service_utils_sorted(node, ps.util)
        st0 == [inst |-> ps.inst[node], util |-> ps.util, rem |-> NumVMs[node] + 1]
        st1 == FirstPass(sorted, 1, node, st0)
        st2 == SecondPass(sorted, node,
                          [inst |-> st1.inst, util |-> st1.util, rem |-> st1.rem,
                           added |-> FALSE])
    IN [inst |-> [ps.inst EXCEPT ![node] = st2.inst], util |-> st2.util,
        snap |-> [ps.snap EXCEPT ![node] = st2.util]]

\* lines 160-230 for one node: ps = [inst (all nodes), util, snap]; snap[v] keeps
\* serviceNodeUtil as it is right after node v has been processed
ReplaceAtNode(node, ps) ==
    LET sorted == service_utils_sorted(node, ps.util)
        st0 == [inst |-> ps.inst[node], util |-> ps.util, rem |-> NumVMs[node]]
        st1 == FirstPass(sorted, 1, node, st0)
        st2 == SecondPass(sorted, node,
                          [inst |-> st1.inst, util |-> st1.util, rem |-> st1.rem,
                           added |-> FALSE])
    IN [inst |-> [ps.inst EXCEPT ![node] = st2.inst], util |-> st2.util,
        snap |-> [ps.snap EXCEPT ![node] = st2.util]]

RECURSIVE ReplaceAtNodes(_, _)
ReplaceAtNodes(nodes, ps) ==
    IF nodes = <<>> THEN ps
    ELSE ReplaceAtNodes(Tail(nodes), ReplaceAtNode(Head(nodes), ps))

\* lines 147-230: nodes by depth; the instances of a depth are zeroed first
RECURSIVE ReplaceFromHeight(_, _)
ReplaceFromHeight(height, ps) ==
    IF height > Height THEN ps
    ELSE LET level == {n \in EdgeNodes : Depth[n] = height}
             zeroed == [n \in EdgeNodes |->
                           IF n \in level THEN [s \in Services |-> 0] ELSE ps.inst[n]]
         IN ReplaceFromHeight(height + 1,
                ReplaceAtNodes(AscSeq(level),
                               [inst |-> zeroed, util |-> ps.util, snap |-> ps.snap]))

\* range(diff): empty when diff <= 0
PyRangeLen(diff) == IF diff > 0 THEN diff ELSE 0

\* lines 238-246: the lists servicesToAdd and servicesToReplace of a node
RECURSIVE DiffList(_, _, _, _)
DiffList(svcs, old, new, adding) ==
    IF svcs = <<>> THEN <<>>
    ELSE LET service == Head(svcs)
             diff == new[service] - old[service]
             n == IF adding THEN (IF diff > 0 THEN PyRangeLen(diff) ELSE 0)
                  ELSE (IF diff < 0 THEN PyRangeLen(diff) ELSE 0)
         IN [i \in 1..n |-> service] \o DiffList(Tail(svcs), old, new, adding)

\* lines 247-250: the reassign_vm calls reported to the controller for a node
ReportedReassignments(node, old, new) ==
    LET servicesToAdd == DiffList(AscSeq(Services), old, new, TRUE)
        servicesToReplace == DiffList(AscSeq(Services), old, new, FALSE)
    IN [indx \in 1..Len(servicesToAdd) |->
           [node |-> node,
            evicted |-> IF indx <= Len(servicesToReplace)
                        THEN servicesToReplace[indx] ELSE NoNode,
            added |-> servicesToAdd]]

\* lines 232-250: the new placement ps is compared with the placement nvps of
\* the previous interval, which it then replaces
\* a report that leaves the snapshot of the previous timeslot in place
ReportPlacementKeepsSnapshot(ps, nvps) ==
    [inst |-> ps.inst, util |-> ps.util, nvps |-> nvps, snap |-> ps.snap,
     reports |-> [n \in EdgeNodes |-> ReportedReassignments(n, nvps[n], ps.inst[n])]]

ReportPlacement(ps, nvps) ==
    [inst |-> ps.inst, util |-> ps.util, nvps |-> ps.inst, snap |-> ps.snap,
     reports |-> [n \in EdgeNodes |-> ReportedReassignments(n, nvps[n], ps.inst[n])]]

\* Coordinated.replace_services: [inst, util, nvps, reports]
CoordReplaceServices(inst, util, nvps) ==
    ReportPlacement(ReplaceFromHeight(0, [inst |-> inst, util |-> util,
                                          snap |-> [n \in EdgeNodes |-> util]]), nvps)

\* the replacement check with >= in place of >
ReplacementDueAtInterval(time) == time - last_replacement >= replacement_interval

\* lines 265-270: the replacement check that opens process_event
ReplacementDue(time) == time - last_replacement > replacement_interval

\* lines 266-270: the state after a pass r: metrics re-initialised, the time of
\* the pass recorded
CoordAfterPass(r, time) ==
    [ran |-> TRUE, inst |-> r.inst, util |-> ZeroUtil, nvps |-> r.nvps,
     last |-> time,
     pass |-> [ran |-> TRUE, time |-> time,
               zero |-> serviceNodeUtil = ZeroUtil,
               pre |-> numberOfServiceInstances, post |-> r.inst,
               reports |-> r.reports, snap |-> r.snap,
               count |-> lastPass.count + 1]]

CoordPrelude(time) ==
    IF ReplacementDue(time)
    THEN CoordAfterPass(CoordReplaceServices(numberOfServiceInstances, serviceNodeUtil,
                                             numVMsPerService), time)
    ELSE [ran |-> FALSE, inst |-> numberOfServiceInstances, util |-> serviceNodeUtil,
          nvps |-> numVMsPerService, last |-> last_replacement, pass |-> lastPass]

\* the append of line 121 without the sort of line 122
EnqueueUnsorted(q, aTask) == Append(q, aTask)

\* lines 121-122: append the task and sort the queue by arrival time
EnqueueUpcoming(q, aTask) == SortedByArrival(Append(q, aTask))

\* the test of line 128 without the path delay
ProbeViolatedNoDelay(task, delay) == task.expiry < task.completionTime

\* line 128: the test applied to every queued task after the probe
ProbeViolated(task, delay) == (task.expiry - delay) < task.completionTime

\* lines 113-119: the spot is skipped before any probe
SpotSkipped(n, service, deadline, time, rtt_to_cs, inst) ==
    \/ IsCloud(n)
    \/ inst[n][service] = 0
    \/ deadline - time - rtt_to_cs < ServiceTime[service]

\* lines 109-138: the loop over reversed(path[1:-1]); tq, uq are the queues of
\* all spots, threaded through the failed probes
RECURSIVE FindFeasible(_, _, _, _, _, _, _, _, _, _)
FindFeasible(nodes, receiver, flow_id, time, service, deadline, rtt_delay, inst, tq, uq) ==
    IF nodes = <<>>
    THEN [source |-> content_source(service), tq |-> tq, uq |-> uq, probed |-> <<>>]
    ELSE LET n == Head(nodes)
             delay == path_delay(receiver, n)
             rtt_to_cs == rtt_delay + 2 * delay
             serviceTime == ServiceTime[service]
             aTask == Task(time, deadline, rtt_to_cs, n, service, serviceTime, flow_id,
                           receiver, time + delay)
             cc == compute_completion_times(coreFinishTime[n], tq[n],
                                            EnqueueUpcoming(uq[n], aTask))
             all == cc.tq \o cc.uq
         IN IF SpotSkipped(n, service, deadline, time, rtt_to_cs, inst)
            THEN FindFeasible(Tail(nodes), receiver, flow_id, time, service, deadline,
                              rtt_delay, inst, tq, uq)
            ELSE IF \E i \in 1..Len(all) : ProbeViolated(all[i], delay)
            THEN LET rest == FindFeasible(Tail(nodes), receiver, flow_id, time, service,
                                          deadline, rtt_delay, inst,
                                          [tq EXCEPT ![n] = cc.tq],
                                          [uq EXCEPT ![n] = RemoveFlow(cc.uq, flow_id)])
                 IN [rest EXCEPT !.probed = <<[node |-> n, queue |-> cc.uq]>> \o @]
            ELSE [source |-> n, tq |-> [tq EXCEPT ![n] = cc.tq],
                  uq |-> [uq EXCEPT ![n] = cc.uq],
                  probed |-> <<[node |-> n, queue |-> cc.uq]>>]

\* the walk started at the spot next to the receiver instead of the one next to
\* the origin
find_nearest_feasible_node(receiver, flow_id, path, time, service, deadline, rtt_delay, inst, tq, uq) ==
    FindFeasible(SubSeq(path, 2, Len(path) - 1), receiver, flow_id, time,
                 service, deadline, rtt_delay, inst, tq, uq)

find_topmost_feasible_node(receiver, flow_id, path, time, service, deadline, rtt_delay, inst, tq, uq) ==
    FindFeasible(Reverse(SubSeq(path, 2, Len(path) - 1)), receiver, flow_id, time,
                 service, deadline, rtt_delay, inst, tq, uq)

\* demand accounted at every spot, on the path or not
AddDemandEverywhere(util, receiver, nodes, service) ==
    [util EXCEPT ![RecvIndex(receiver)] =
        [n \in EdgeNodes |-> [@[n] EXCEPT ![service] = @ + ServiceTime[service]]]]

\* lines 288-292: demand accounting along path[1:]
AddDemand(util, receiver, nodes, service) ==
    [util EXCEPT ![RecvIndex(receiver)] =
        [n \in EdgeNodes |->
            IF InSeq(n, nodes) /\ ~IsCloud(n)
            THEN [@[n] EXCEPT ![service] = @ + ServiceTime[service]]
            ELSE @[n]]]

NoRoute == [flow_id |-> 0, node |-> NoNode, receiver |-> NoNode, queue |-> <<>>,
            probed |-> <<>>]

Running == fault = "none"

\* what every branch of Coordinated.process_event keeps of the prelude
CoordAfterPrelude(pl) ==
    /\ last_replacement' = pl.last
    /\ lastPass' = pl.pass
    /\ numVMsPerService' = pl.nvps
    /\ numberOfServiceInstances' = pl.inst

\* lines 272-293: REQUEST at its receiver (delivered by the workload)
CoordRequestAtReceiver ==
    \E receiver \in Receivers, service \in WorkloadServices, time \in now..(now + MaxGap) :
        /\ strategy = "COORDINATED"
        /\ Running
        /\ flows < MaxFlows
        /\ events # <<>> => time <= Head(events).time
        /\ \E pl \in {CoordPrelude(time)} :
           \E r \in {find_topmost_feasible_node(receiver, flows + 1,
                          shortest_path(receiver, content_source(service)), time,
                          service, time + ServiceDeadline[service], 0, pl.inst,
                          taskQueue, upcomingTaskQueue)} :
           \E upstream_node \in {r.source} :
           \E delay \in {path_delay(receiver, upstream_node)} :
           LET flow_id == flows + 1
               deadline == time + ServiceDeadline[service]
               source == content_source(service)
               path == shortest_path(receiver, source)
               rtt_delay == 0 + delay * 2
               ev == IF upstream_node # source
                     THEN Event(time + delay, receiver, service, upstream_node, flow_id,
                                deadline, rtt_delay, REQUEST)
                     ELSE Event(time + rtt_delay + ServiceTime[service], receiver,
                                service, receiver, flow_id, deadline, rtt_delay, RESPONSE)
           IN /\ CoordAfterPrelude(pl)
              /\ serviceNodeUtil' = AddDemand(pl.util, receiver, PySliceFrom(path, 1), service)
              /\ taskQueue' = r.tq
              /\ upcomingTaskQueue' = r.uq
              /\ events' = add_event(events, ev)
              /\ session' = [start_session(session, time, flow_id, deadline)
                                EXCEPT ![flow_id].node = upstream_node]
              /\ lastRoute' = [flow_id |-> flow_id, node |-> upstream_node,
                               receiver |-> receiver,
                               queue |-> IF upstream_node # source
                                         THEN r.tq[upstream_node] \o r.uq[upstream_node]
                                         ELSE <<>>,
                               probed |-> r.probed]
              /\ flows' = flow_id
              /\ now' = time
        /\ UNCHANGED <<configVars, lruCache, fault, coreFinishTime, metricVars>>

\* lines 302-304 and 322-325: schedule(time) and the TASK_COMPLETE of the task
\* it dispatched
CoordDispatch(node, time, q) ==
    LET d == schedule(coreFinishTime[node], taskQueue[node], upcomingTaskQueue[node], time)
        newTask == d.task
    IN /\ taskQueue' = [taskQueue EXCEPT ![node] = d.tq]
       /\ upcomingTaskQueue' = [upcomingTaskQueue EXCEPT ![node] = d.uq]
       /\ coreFinishTime' = [coreFinishTime EXCEPT ![node] = d.cores]
       /\ events' = IF d.found
                    THEN add_event(q, Event(newTask.completionTime, newTask.receiver,
                                            newTask.service, node, newTask.flow_id,
                                            newTask.expiry, newTask.rtt_delay,
                                            TASK_COMPLETE))
                    ELSE q

\* lines 339-341: sys.exit("Unexpected request in Coordinated strategy")
CoordUnexpected(q) ==
    /\ fault' = "unexpected"
    /\ events' = q
    /\ UNCHANGED <<schedVars, session>>

\* lines 294-318: REQUEST at the spot the request was routed to
CoordRequestAtSpot ==
    /\ strategy = "COORDINATED"
    /\ Running
    /\ events # <<>>
    /\ Head(events).status = REQUEST
    /\ \E e \in {Head(events)} : \E pl \in {CoordPrelude(e.time)} :
          /\ CoordAfterPrelude(pl)
          /\ serviceNodeUtil' = pl.util
          /\ now' = e.time
          /\ IF e.node # content_source(e.service)
             THEN IF \E i \in 1..Len(upcomingTaskQueue[e.node]) :
                         upcomingTaskQueue[e.node][i].flow_id = e.flow_id
                  THEN /\ CoordDispatch(e.node, e.time, Tail(events))
                       /\ UNCHANGED <<fault, session>>
                  ELSE /\ fault' = "No task with the given flow id in the upcomingTaskQueue"
                       /\ events' = Tail(events)
                       /\ UNCHANGED <<schedVars, session>>
             ELSE CoordUnexpected(Tail(events))
    /\ UNCHANGED <<configVars, lruCache, metricVars, flows, lastRoute>>

\* lines 320-333: TASK_COMPLETE at a spot
CoordTaskComplete ==
    /\ strategy = "COORDINATED"
    /\ Running
    /\ events # <<>>
    /\ Head(events).status = TASK_COMPLETE
    /\ \E e \in {Head(events)} : \E pl \in {CoordPrelude(e.time)} :
       LET delay == path_delay(e.node, e.receiver)
           response == Event(e.time + delay, e.receiver, e.service, e.receiver,
                             e.flow_id, e.deadline, e.rtt_delay, RESPONSE)
       IN /\ CoordAfterPrelude(pl)
          /\ serviceNodeUtil' = pl.util
          /\ now' = e.time
          /\ \E q \in {Tail(events)} :
                LET d == schedule(coreFinishTime[e.node], taskQueue[e.node],
                                  upcomingTaskQueue[e.node], e.time)
                    newTask == d.task
                    q1 == IF d.found
                          THEN add_event(q, Event(newTask.completionTime,
                                                  newTask.receiver, newTask.service,
                                                  e.node, newTask.flow_id,
                                                  newTask.expiry, newTask.rtt_delay,
                                                  TASK_COMPLETE))
                          ELSE q
                IN /\ taskQueue' = [taskQueue EXCEPT ![e.node] = d.tq]
                   /\ upcomingTaskQueue' = [upcomingTaskQueue EXCEPT ![e.node] = d.uq]
                   /\ coreFinishTime' = [coreFinishTime EXCEPT ![e.node] = d.cores]
                   /\ events' = add_event(q1, response)
    /\ UNCHANGED <<configVars, lruCache, metricVars, flows, lastRoute, fault, session>>

\* lines 334-338: RESPONSE at the receiver
CoordResponse ==
    /\ strategy = "COORDINATED"
    /\ Running
    /\ events # <<>>
    /\ Head(events).status = RESPONSE
    /\ \E e \in {Head(events)} : \E pl \in {CoordPrelude(e.time)} :
          /\ CoordAfterPrelude(pl)
          /\ serviceNodeUtil' = pl.util
          /\ now' = e.time
          /\ IF e.node = e.receiver
             THEN /\ session' = end_session(session, e.time, e.flow_id)
                  /\ events' = Tail(events)
                  /\ UNCHANGED <<fault, schedVars>>
             ELSE CoordUnexpected(Tail(events))
    /\ UNCHANGED <<configVars, lruCache, metricVars, flows, lastRoute>>

\* the controller's cache of a spot after construction: one slot per VM, the
\* most recently placed service first
InitCache == [n \in EdgeNodes |->
                 [i \in 1..NumVMs[n] |-> (NumVMs[n] - i) % ServicePopulationSize]]

NoPass == [ran |-> FALSE, time |-> 0, zero |-> FALSE, pre |-> ZeroCounts,
           post |-> ZeroCounts, reports |-> [n \in EdgeNodes |-> <<>>],
           snap |-> [n \in EdgeNodes |-> ZeroUtil], count |-> 0]

ZeroMetric == [n \in EdgeNodes |-> [s \in Services |-> Frac(0, 1)]]

\* the scheduler of every spot after construction
InitScheduler ==
    /\ taskQueue = [n \in EdgeNodes |-> <<>>]
    /\ upcomingTaskQueue = [n \in EdgeNodes |-> <<>>]
    /\ coreFinishTime = [n \in EdgeNodes |-> [c \in 1..NumCores[n] |-> 0]]

InitHarness ==
    /\ now = 0
    /\ events = <<>>
    /\ fault = "none"
    /\ flows = 0
    /\ session = [f \in Flows |-> NoSession]
    /\ lastPass = NoPass
    /\ lastRoute = NoRoute

\* Coordinated.__init__ (lines 42-78)
InitCoord ==
    /\ strategy = "COORDINATED"
    /\ replacement_interval \in {2}
    /\ pyRound \in {"half_up", "half_even"}
    /\ n_replacements = 1
    /\ lru_p = 2
    /\ lruCache = InitCache
    /\ last_replacement = 0
    /\ numberOfServiceInstances = InitialPlacement
    /\ numVMsPerService = InitialPlacement
    /\ serviceNodeUtil = ZeroUtil
    /\ running_requests = ZeroCounts
    /\ missed_requests = ZeroCounts
    /\ deadline_metric = ZeroMetric
    /\ cand_deadline_metric = ZeroMetric
    /\ InitScheduler
    /\ InitHarness

NextCoord ==
    \/ CoordRequestAtReceiver
    \/ CoordRequestAtSpot
    \/ CoordTaskComplete
    \/ CoordResponse

SpecCoord == InitCoord /\ [][NextCoord]_vars

\* ------------------------------------------------------------------------
\* ComputeSpot (icarus.models.service): admission and VM reassignment
\* ------------------------------------------------------------------------
\* view.has_service(node, service)
has_service(inst, node, service) == inst[node][service] > 0

\* cs.reassign_vm(controller, from_service, to_service): counts of one spot
reassign_vm(instN, from, to) == [instN EXCEPT ![from] = @ - 1, ![to] = @ + 1]

\* the test admit_task applies to every task after the replay
AdmitLate(task, n) == task.completionTime > task.expiry - path_delay(n, task.receiver)

\* cs.admit_task at a non-cloud spot n: [ret, reason, tq]
admit_task(n, service, time, flow_id, deadline, receiver, rtt_delay, inst, cores, tq, uq) ==
    LET serviceTime == ServiceTime[service]
        aTask == Task(time, deadline, rtt_delay, n, service, serviceTime, flow_id,
                      receiver, time)
        earliest == Max(cores[NextCore(cores)], time) + serviceTime
        cc == compute_completion_times(cores, Append(tq, aTask), uq)
        all == cc.tq \o cc.uq
    IN IF inst[n][service] = 0
       THEN [ret |-> FALSE, reason |-> NO_INSTANCES, tq |-> tq]
       ELSE IF earliest > deadline - path_delay(n, receiver)
       THEN [ret |-> FALSE, reason |-> DEADLINE_MISSED, tq |-> tq]
       ELSE IF \E i \in 1..Len(all) : AdmitLate(all[i], n)
       THEN [ret |-> FALSE, reason |-> CONGESTION, tq |-> tq]
       ELSE [ret |-> TRUE, reason |-> SUCCESS, tq |-> cc.tq]

\* ------------------------------------------------------------------------
\* HYBRID, MFU, SDF: replacement
\* ------------------------------------------------------------------------
ServiceSeq == AscSeq(Services)

\* the [service, metric] pairs of the services that pass `keep`, in service order
Pairs(key, keep) ==
    SelectSeq([i \in 1..Len(ServiceSeq) |->
                  [id |-> ServiceSeq[i], key |-> key[ServiceSeq[i]],
                   keep |-> keep[ServiceSeq[i]]]],
              LAMBDA x : x.keep)

\* lines 537-539 and 551-553: missed utilisation clipped to the interval
HybridMissedUtil(service, miss) ==
    Min(miss[service] * ServiceTime[service], replacement_interval)

\* lines 555-559: served utilisation divided twice by the instance count
HybridRunningUtil(service, instN, run) ==
    Frac(run[service] * ServiceTime[service], instN[service] * instN[service])

\* delay[service] taken as the summed slack, not divided by the request count
HybridDelayOfTotals(service, instN, run, miss, dm, cm) ==
    IF instN[service] = 0
    THEN IF miss[service] > 0 THEN cm[service] ELSE Inf
    ELSE IF run[service] > 0 THEN dm[service] ELSE Inf

\* lines 530-536 and 544-561: delay[service]
HybridDelay(service, instN, run, miss, dm, cm) ==
    IF instN[service] = 0
    THEN IF miss[service] > 0 THEN FracDiv(cm[service], miss[service]) ELSE Inf
    ELSE IF run[service] > 0 THEN FracDiv(dm[service], run[service]) ELSE Inf

\* the condition of line 579 with <= between the two delays
HybridSwapsOnEqualDelay(missed_util, running_util, delayMissed, delayRunning) ==
    /\ ~FracLess(missed_util, running_util)
    /\ ~FracLess(delayRunning, delayMissed)
    /\ FracLess(Frac(0, 1), delayMissed)

\* line 579: the condition under which one VM moves to the missed service
HybridSwaps(missed_util, running_util, delayMissed, delayRunning) ==
    /\ ~FracLess(missed_util, running_util)
    /\ FracLess(delayMissed, delayRunning)
    /\ FracLess(Frac(0, 1), delayMissed)

\* lines 571-585: the scan of the running services for one missed service
RECURSIVE HybridScan(_, _, _, _, _)
HybridScan(running, indx, service_missed, missed_util, delay) ==
    IF indx > Len(running) THEN [exit |-> FALSE, hit |-> 0]
    ELSE LET service_running == running[indx].id
             running_util == running[indx].key
         IN IF FracLess(missed_util, running_util) THEN [exit |-> TRUE, hit |-> 0]
            ELSE IF service_running = service_missed
            THEN HybridScan(running, indx + 1, service_missed, missed_util, delay)
            ELSE IF HybridSwaps(missed_util, running_util, delay[service_missed],
                                delay[service_running])
            THEN [exit |-> FALSE, hit |-> indx]
            ELSE HybridScan(running, indx + 1, service_missed, missed_util, delay)

\* lines 567-585: st = [inst, calls]
RECURSIVE HybridLoop(_, _, _, _, _)
HybridLoop(missed, k, running, delay, st) ==
    IF k > Len(missed) THEN st
    ELSE LET r == HybridScan(running, 1, missed[k].id, missed[k].key, delay)
         IN IF r.exit THEN st
            ELSE IF r.hit # 0
            THEN HybridLoop(missed, k + 1, RemoveAt(running, r.hit), delay,
                     [inst |-> reassign_vm(st.inst, running[r.hit].id, missed[k].id),
                      calls |-> Append(st.calls, [from |-> running[r.hit].id,
                                                  to |-> missed[k].id])])
            ELSE HybridLoop(missed, k + 1, running, delay, st)

\* the pass with every running service entered twice in the list it scans
HybridReplaceNodeListedTwice(instN, run, miss, dm, cm) ==
    LET delay == [s \in Services |-> HybridDelay(s, instN, run, miss, dm, cm)]
        running == SortAsc(Pairs([s \in Services |-> HybridRunningUtil(s, instN, run)],
                                 [s \in Services |-> instN[s] > 0]))
        missed == SortDesc(Pairs([s \in Services |-> Frac(HybridMissedUtil(s, miss), 1)],
                                 [s \in Services |-> TRUE]))
    IN HybridLoop(missed, 1, running \o running, delay,
                  [inst |-> instN, calls |-> <<>>])

\* Hybrid.replace_services1 for one node (lines 509-585)
HybridReplaceNode(instN, run, miss, dm, cm) ==
    LET delay == [s \in Services |-> HybridDelay(s, instN, run, miss, dm, cm)]
        running == SortAsc(Pairs([s \in Services |-> HybridRunningUtil(s, instN, run)],
                                 [s \in Services |-> instN[s] > 0]))
        missed == SortDesc(Pairs([s \in Services |-> Frac(HybridMissedUtil(s, miss), 1)],
                                 [s \in Services |-> TRUE]))
    IN HybridLoop(missed, 1, running, delay, [inst |-> instN, calls |-> <<>>])

\* MFU lines 783-809, SDF lines 1012-1039: the lists vms and cand_services
\* a resident list that also names the services without an instance
MfuVmsAnyService(instN, run) ==
    Pairs([s \in Services |-> Frac(run[s] * ServiceTime[s], 1)],
          [s \in Services |-> TRUE])

MfuVms(instN, run) ==
    Pairs([s \in Services |-> Frac(run[s] * ServiceTime[s], 1)],
          [s \in Services |-> instN[s] # 0])
MfuCand(miss) ==
    Pairs([s \in Services |-> Frac(miss[s] * ServiceTime[s], 1)],
          [s \in Services |-> miss[s] # 0])
SdfVms(instN, run, dm) ==
    Pairs([s \in Services |-> IF run[s] = 0 THEN Frac(1, 1) ELSE FracDiv(dm[s], run[s])],
          [s \in Services |-> instN[s] # 0])
SdfCand(miss, cm) ==
    Pairs([s \in Services |-> IF miss[s] = 0 THEN Frac(1, 1) ELSE FracDiv(cm[s], miss[s])],
          [s \in Services |-> miss[s] # 0])

\* MFU line 822 (vm[1] > cand[1]) and SDF line 1052 (vm[1] < cand[1])
WalkStops(strat, vmKey, candKey) ==
    IF strat = "MFU" THEN FracLess(candKey, vmKey) ELSE FracLess(vmKey, candKey)

\* MFU lines 818-832, SDF lines 1047-1061: i walks vms, indx is the 0-based
\* index into cand_services; st = [inst, calls]
RECURSIVE Walk(_, _, _, _, _, _, _)
Walk(strat, vms, cand, i, indx, n_repl, st) ==
    IF i > Len(vms) THEN st
    ELSE IF indx >= Len(cand) THEN st
    ELSE IF WalkStops(strat, vms[i].key, cand[indx + 1].key) THEN st
    ELSE LET differ == vms[i].id # cand[indx + 1].id
             st1 == IF differ
                    THEN [inst |-> reassign_vm(st.inst, vms[i].id, cand[indx + 1].id),
                          calls |-> Append(st.calls, [from |-> vms[i].id,
                                                      to |-> cand[indx + 1].id])]
                    ELSE st
             n1 == IF differ THEN n_repl - 1 ELSE n_repl
         IN IF n1 = 0 \/ indx = Len(cand) THEN st1
            ELSE Walk(strat, vms, cand, i + 1, indx + 1, n1, st1)

\* the MFU walk with a count of replacements that never reaches zero
MfuReplaceNodeUnbounded(k, instN, run, miss) ==
    Walk("MFU", SortAsc(MfuVms(instN, run)), SortDesc(MfuCand(miss)), 1, 0, 0,
         [inst |-> instN, calls |-> <<>>])

\* the MFU walk with the candidates taken from the least missed upward
MfuReplaceNodeLeastMissed(k, instN, run, miss) ==
    Walk("MFU", SortAsc(MfuVms(instN, run)), SortAsc(MfuCand(miss)), 1, 0, k,
         [inst |-> instN, calls |-> <<>>])

\* MostFrequentlyUsed.replace_services for one node (lines 776-832)
MfuReplaceNode(k, instN, run, miss) ==
    Walk("MFU", SortAsc(MfuVms(instN, run)), SortDesc(MfuCand(miss)), 1, 0, k,
         [inst |-> instN, calls |-> <<>>])

\* StrictestDeadlineFirst.replace_services for one node (lines 1005-1061)
SdfReplaceNode(k, instN, run, miss, dm, cm) ==
    Walk("SDF", SortDesc(SdfVms(instN, run, dm)), SortAsc(SdfCand(miss, cm)), 1, 0, k,
         [inst |-> instN, calls |-> <<>>])

\* the replacement of the running strategy at one node
EdgeReplaceNode(strat, k, instN, run, miss, dm, cm) ==
    IF strat = "HYBRID" THEN HybridReplaceNode(instN, run, miss, dm, cm)
    ELSE IF strat = "MFU" THEN MfuReplaceNode(k, instN, run, miss)
    ELSE SdfReplaceNode(k, instN, run, miss, dm, cm)

AllCountersZero ==
    /\ running_requests = ZeroCounts
    /\ missed_requests = ZeroCounts
    /\ \A n \in EdgeNodes, s \in Services :
           deadline_metric[n][s].num = 0 /\ cand_deadline_metric[n][s].num = 0

\* lines 614-620, 846-851, 1074-1079: the replacement check of HYBRID, MFU, SDF;
\* [ran, inst, last, pass]
EdgePrelude(time) ==
    IF ReplacementDue(time)
    THEN LET r == [n \in EdgeNodes |->
                      EdgeReplaceNode(strategy, n_replacements,
                                      numberOfServiceInstances[n], running_requests[n],
                                      missed_requests[n], deadline_metric[n],
                                      cand_deadline_metric[n])]
             post == [n \in EdgeNodes |-> r[n].inst]
         IN [ran |-> TRUE, inst |-> post, last |-> time,
             pass |-> [ran |-> TRUE, time |-> time, zero |-> AllCountersZero,
                       pre |-> numberOfServiceInstances, post |-> post,
                       reports |-> [n \in EdgeNodes |-> r[n].calls],
                       snap |-> lastPass.snap, count |-> lastPass.count + 1]]
    ELSE [ran |-> FALSE, inst |-> numberOfServiceInstances, last |-> last_replacement,
          pass |-> lastPass]

\* ------------------------------------------------------------------------
\* HYBRID, MFU, SDF: process_event
\* ------------------------------------------------------------------------
EdgeStrategies == {"HYBRID", "MFU", "SDF"}

\* initialise_metrics, run by the prelude after a replacement
MetricsAfter(pl) ==
    [run |-> IF pl.ran THEN ZeroCounts ELSE running_requests,
     miss |-> IF pl.ran THEN ZeroCounts ELSE missed_requests,
     dm |-> IF pl.ran THEN ZeroMetric ELSE deadline_metric,
     cm |-> IF pl.ran THEN ZeroMetric ELSE cand_deadline_metric]

SetMetrics(m) ==
    /\ running_requests' = m.run
    /\ missed_requests' = m.miss
    /\ deadline_metric' = m.dm
    /\ cand_deadline_metric' = m.cm

EdgeAfterPrelude(pl) ==
    /\ last_replacement' = pl.last
    /\ lastPass' = pl.pass
    /\ numberOfServiceInstances' = pl.inst

\* path[1] of the shortest path and the event that passes a message one hop on
NextHop(node, target) == shortest_path(node, target)[2]

\* lines 635-642, 866-874, 1094-1102: REQUEST at its receiver
EdgeRequestAtReceiver ==
    \E receiver \in Receivers, service \in Services, time \in now..(now + MaxGap) :
        /\ strategy \in EdgeStrategies
        /\ Running
        /\ flows < EdgeFlows
        /\ events # <<>> => time <= Head(events).time
        /\ LET flow_id == flows + 1
               deadline == time + ServiceDeadline[service]
               pl == EdgePrelude(time)
               source == content_source(service)
               next_node == NextHop(receiver, source)
               delay == path_delay(receiver, next_node)
           IN /\ EdgeAfterPrelude(pl)
              /\ SetMetrics(MetricsAfter(pl))
              /\ session' = start_session(session, time, flow_id, deadline)
              /\ events' = add_event(events, Event(time + delay, receiver, service,
                                                    next_node, flow_id, deadline,
                                                    0 + delay * 2, REQUEST))
              /\ flows' = flow_id
              /\ now' = time
        /\ UNCHANGED <<configVars, lruCache, coordVars, fault, schedVars, lastRoute>>

\* ComputeSpot.admit_task on a cloud spot: every call is satisfied
CloudAdmits(e) == e.node = content_source(e.service)

\* a request handed back toward the receiver instead of being executed
CloudForward(e) ==
    Event(e.time + UpLinkDelay[1], e.receiver, e.service, 1, e.flow_id,
          e.deadline, e.rtt_delay, RESPONSE)

\* the cloud's scheduler fires TASK_COMPLETE when the task is done
CloudCompletion(e) ==
    Event(e.time + ServiceTime[e.service], e.receiver, e.service, e.node,
          e.flow_id, e.deadline, e.rtt_delay, TASK_COMPLETE)

\* lines 627-632, 858-863, 1086-1091: REQUEST at the source; the cloud spot
\* accepts and its TASK_COMPLETE follows after the service time
EdgeRequestAtCloud ==
    /\ strategy \in EdgeStrategies
    /\ Running
    /\ events # <<>>
    /\ Head(events).status = REQUEST
    /\ Head(events).node = content_source(Head(events).service)
    /\ LET e == Head(events)
           pl == EdgePrelude(e.time)
       IN /\ EdgeAfterPrelude(pl)
          /\ SetMetrics(MetricsAfter(pl))
          /\ now' = e.time
          /\ IF CloudAdmits(e)
             THEN /\ events' = add_event(Tail(events), CloudCompletion(e))
                  /\ fault' = fault
             ELSE /\ events' = Tail(events)
                  /\ fault' = "Task should not be rejected at the cloud."
    /\ UNCHANGED <<configVars, lruCache, coordVars, schedVars, lastRoute, flows,
                   session>>

\* lines 685, 916, 1144: the slack recorded for a request
SlackMetric(strat, deadline, time, rtt_delay, service) ==
    LET slack == deadline - time - rtt_delay - ServiceTime[service]
    IN IF strat = "HYBRID" THEN Frac(slack, 1) ELSE Frac(slack, deadline)

\* the slack added whatever its sign
AddMetricAnySign(metric, node, service, x) ==
    [metric EXCEPT ![node][service] = FracAdd(@, x)]

AddMetric(metric, node, service, x) ==
    IF x.num > 0 THEN [metric EXCEPT ![node][service] = FracAdd(@, x)] ELSE metric

\* lines 937 and 1165: MFU and SDF count a request for a service that is not hosted
CountsNotHosted(strat) == strat \in {"MFU", "SDF"}

\* lines 690-713, 921-943, 1149-1171: the counters after a REQUEST at a spot that
\* hosts the service or not and whose admit_task returned ret
SpotMetrics(strat, m, node, service, x, hosted, ret) ==
    IF hosted /\ ret
    THEN [m EXCEPT !.run[node][service] = @ + 1,
                   !.dm = AddMetric(@, node, service, x)]
    ELSE IF hosted
    THEN [m EXCEPT !.miss[node][service] = @ + 1,
                   !.cm = AddMetric(@, node, service, x)]
    ELSE [m EXCEPT !.miss[node][service] =
                       IF CountsNotHosted(strat) THEN @ + 1 ELSE @,
                   !.cm = AddMetric(@, node, service, x)]

\* lines 679-713, 910-943, 1138-1171: REQUEST at an intermediate node
EdgeRequestAtSpot ==
    /\ strategy \in EdgeStrategies
    /\ Running
    /\ events # <<>>
    /\ Head(events).status = REQUEST
    /\ Head(events).node \in EdgeNodes
    /\ \E e \in {Head(events)} : \E pl \in {EdgePrelude(e.time)} :
       \E a \in {admit_task(e.node, e.service, e.time, e.flow_id, e.deadline,
                            e.receiver, e.rtt_delay, pl.inst, coreFinishTime[e.node],
                            taskQueue[e.node], upcomingTaskQueue[e.node])} :
       \E d \in {schedule(coreFinishTime[e.node], a.tq, upcomingTaskQueue[e.node],
                          e.time)} :
       \E m \in {MetricsAfter(pl)} :
       LET node == e.node
           service == e.service
           next_node == NextHop(node, content_source(service))
           delay == path_delay(node, next_node)
           x == SlackMetric(strategy, e.deadline, e.time, e.rtt_delay, service)
           upstream == Event(e.time + delay, e.receiver, service, next_node, e.flow_id,
                             e.deadline, e.rtt_delay + delay * 2, REQUEST)
       IN /\ EdgeAfterPrelude(pl)
          /\ now' = e.time
          /\ IF has_service(pl.inst, node, service)
             THEN IF a.ret
                  THEN /\ SetMetrics(SpotMetrics(strategy, m, node, service, x, TRUE, TRUE))
                       /\ taskQueue' = [taskQueue EXCEPT ![node] = d.tq]
                       /\ upcomingTaskQueue' = [upcomingTaskQueue EXCEPT ![node] = d.uq]
                       /\ coreFinishTime' = [coreFinishTime EXCEPT ![node] = d.cores]
                       /\ events' =
                              IF d.found
                              THEN add_event(Tail(events),
                                       Event(d.task.completionTime, d.task.receiver,
                                             d.task.service, node, d.task.flow_id,
                                             d.task.expiry, d.task.rtt_delay,
                                             TASK_COMPLETE))
                              ELSE Tail(events)
                       /\ UNCHANGED session
                  ELSE /\ SetMetrics(SpotMetrics(strategy, m, node, service, x, TRUE, FALSE))
                       /\ events' = add_event(Tail(events), upstream)
                       /\ session' = [session EXCEPT ![e.flow_id].forwardedBy = node]
                       /\ UNCHANGED schedVars
             ELSE /\ SetMetrics(SpotMetrics(strategy, m, node, service, x, FALSE, FALSE))
                  /\ events' = add_event(Tail(events), upstream)
                  /\ session' = [session EXCEPT ![e.flow_id].forwardedBy = node]
                  /\ UNCHANGED schedVars
    /\ UNCHANGED <<configVars, lruCache, coordVars, fault, lastRoute, flows>>

\* the test of lines 899 and 1127 with the comparison turned round
DispatchedEarly(task, node, time) == task.expiry > time + path_delay(node, task.receiver)

\* lines 669-671, 899-901, 1127-1129: a dispatched task that is already late is
\* only logged by HYBRID; MFU and SDF raise ValueError
DispatchedLate(task, node, time) == task.expiry < time + path_delay(node, task.receiver)
RaisesOnLate(strat) == strat \in {"MFU", "SDF"}

\* lines 661-677, 891-907, 1119-1135: TASK_COMPLETE
EdgeTaskComplete ==
    /\ strategy \in EdgeStrategies
    /\ Running
    /\ events # <<>>
    /\ Head(events).status = TASK_COMPLETE
    /\ LET e == Head(events)
           node == e.node
           pl == EdgePrelude(e.time)
           atEdge == node # content_source(e.service)
           d == IF atEdge
                THEN schedule(coreFinishTime[node], taskQueue[node],
                              upcomingTaskQueue[node], e.time)
                ELSE [found |-> FALSE]
           q1 == IF d.found
                 THEN add_event(Tail(events),
                          Event(d.task.completionTime, d.task.receiver, d.task.service,
                                node, d.task.flow_id, d.task.expiry, d.task.rtt_delay,
                                TASK_COMPLETE))
                 ELSE Tail(events)
           next_node == NextHop(node, e.receiver)
           delay == link_delay(node, next_node)
           raised == d.found /\ RaisesOnLate(strategy) /\ DispatchedLate(d.task, node, e.time)
       IN /\ EdgeAfterPrelude(pl)
          /\ SetMetrics(MetricsAfter(pl))
          /\ now' = e.time
          /\ IF d.found
             THEN /\ taskQueue' = [taskQueue EXCEPT ![node] = d.tq]
                  /\ upcomingTaskQueue' = [upcomingTaskQueue EXCEPT ![node] = d.uq]
                  /\ coreFinishTime' = [coreFinishTime EXCEPT ![node] = d.cores]
             ELSE UNCHANGED schedVars
          /\ IF raised
             THEN /\ fault' = "a task missed its deadline after being executed at an edge node"
                  /\ events' = q1
             ELSE /\ events' = add_event(q1, Event(e.time + delay, e.receiver, e.service,
                                                   next_node, e.flow_id, e.deadline,
                                                   e.rtt_delay, RESPONSE))
                  /\ UNCHANGED fault
    /\ UNCHANGED <<configVars, lruCache, coordVars, lastRoute, flows, session>>

\* lines 647-659, 880-889, 1108-1117: RESPONSE
EdgeResponse ==
    /\ strategy \in EdgeStrategies
    /\ Running
    /\ events # <<>>
    /\ Head(events).status = RESPONSE
    /\ LET e == Head(events)
           node == e.node
           pl == EdgePrelude(e.time)
           m == MetricsAfter(pl)
       IN /\ EdgeAfterPrelude(pl)
          /\ now' = e.time
          /\ IF node = e.receiver
             THEN /\ session' = end_session(session, e.time, e.flow_id)
                  /\ events' = Tail(events)
                  /\ SetMetrics(m)
             ELSE LET next_node == NextHop(node, e.receiver)
                      delay == link_delay(node, next_node)
                      path_del == path_delay(node, e.receiver)
                  IN /\ events' = add_event(Tail(events),
                                      Event(e.time + delay, e.receiver, e.service,
                                            next_node, e.flow_id, e.deadline,
                                            e.rtt_delay, RESPONSE))
                     /\ SetMetrics(IF strategy = "HYBRID" /\ path_del + e.time > e.deadline
                                   THEN [m EXCEPT !.miss[node][e.service] = @ + 1]
                                   ELSE m)
                     /\ UNCHANGED session
    /\ UNCHANGED <<configVars, lruCache, coordVars, fault, schedVars, lastRoute, flows>>

\* Hybrid.__init__ (466-487), MostFrequentlyUsed.__init__ (724-744),
\* StrictestDeadlineFirst.__init__ (953-973)
InitEdge ==
    /\ strategy \in EdgeStrategies
    /\ replacement_interval \in {2}
    /\ pyRound = "half_up"
    /\ n_replacements \in {1, 2}
    /\ lru_p = 2
    /\ lruCache = InitCache
    /\ last_replacement = 0
    /\ numberOfServiceInstances = InitialPlacement
    /\ numVMsPerService = InitialPlacement
    /\ serviceNodeUtil = ZeroUtil
    /\ running_requests = ZeroCounts
    /\ missed_requests = ZeroCounts
    /\ deadline_metric = ZeroMetric
    /\ cand_deadline_metric = ZeroMetric
    /\ InitScheduler
    /\ InitHarness

NextEdge ==
    \/ EdgeRequestAtReceiver
    \/ EdgeRequestAtCloud
    \/ EdgeRequestAtSpot
    \/ EdgeTaskComplete
    \/ EdgeResponse

SpecEdge == InitEdge /\ [][NextEdge]_vars

\* a step of NextEdge is possible exactly when the simulation has not halted and
\* an event is queued or the workload has a request left
EdgeEnabled ==
    /\ strategy \in EdgeStrategies
    /\ Running
    /\ (events # <<>> \/ flows < EdgeFlows)

\* the harness delivers every queued event and the workload issues all its
\* requests: weak fairness of NextEdge, written out with EdgeEnabled as the
\* enabling condition
FairSpecEdge == SpecEdge /\ ([]<>(~EdgeEnabled) \/ []<><<NextEdge>>_vars)

\* ------------------------------------------------------------------------
\* LRU (class Lru)
\* ------------------------------------------------------------------------
\* view.has_computationalSpot(node): the cloud and the edge nodes have a spot,
\* the receivers have none
has_computationalSpot(node) == node \in CompNodes

\* controller.put_content(node, service): [cache, evicted]
put_content(cache, service) ==
    IF InSeq(service, cache)
    THEN [cache |-> <<service>> \o SelectSeq(cache, LAMBDA x : x # service),
          evicted |-> NoNode]
    ELSE [cache |-> <<service>> \o SubSeq(cache, 1, Len(cache) - 1),
          evicted |-> cache[Len(cache)]]

\* controller.get_content(node, service)
get_content(cache, service) ==
    IF InSeq(service, cache)
    THEN <<service>> \o SelectSeq(cache, LAMBDA x : x # service)
    ELSE cache

\* the values random.random() is drawn from, in quarters: 0.0, 0.25, 0.75
RandomDraws == {0, 1, 3}

\* line 453: self.p == 1.0 or random.random() <= self.p
LruInstalls(draw) == lru_p = 4 \/ draw <= lru_p

\* line 450: upstream execution cannot meet the deadline
LruNoSlack(deadline, time, rtt_delay, delay, service) ==
    deadline - time - rtt_delay - 2 * delay < ServiceTime[service]

\* lines 381-385: the interval check of LRU only resets the counters; [ran, last]
LruPrelude(time) ==
    IF ReplacementDue(time) THEN [ran |-> TRUE, last |-> time]
    ELSE [ran |-> FALSE, last |-> last_replacement]

LruAfterPrelude(pl) ==
    /\ last_replacement' = pl.last
    /\ UNCHANGED <<lastPass, deadline_metric, cand_deadline_metric>>

LruCounters(pl) ==
    [run |-> IF pl.ran THEN ZeroCounts ELSE running_requests,
     miss |-> IF pl.ran THEN ZeroCounts ELSE missed_requests]

SetCounters(m) ==
    /\ running_requests' = m.run
    /\ missed_requests' = m.miss

\* lines 386-393: REQUEST at its receiver
LruRequestAtReceiver ==
    \E receiver \in Receivers, service \in Services, time \in now..(now + MaxGap) :
        /\ strategy = "LRU"
        /\ Running
        /\ flows < EdgeFlows
        /\ events # <<>> => time <= Head(events).time
        /\ LET flow_id == flows + 1
               deadline == time + ServiceDeadline[service]
               pl == LruPrelude(time)
               next_node == NextHop(receiver, content_source(service))
               delay == path_delay(receiver, next_node)
           IN /\ LruAfterPrelude(pl)
              /\ SetCounters(LruCounters(pl))
              /\ session' = start_session(session, time, flow_id, deadline)
              /\ events' = add_event(events, Event(time + delay, receiver, service,
                                                    next_node, flow_id, deadline,
                                                    0 + delay * 2, REQUEST))
              /\ flows' = flow_id
              /\ now' = time
        /\ UNCHANGED <<configVars, lruCache, coordVars, fault, schedVars, lastRoute,
                       numberOfServiceInstances>>

\* lines 441-459: REQUEST at a node that has a compute spot
LruRequestAtNode ==
    \E draw \in RandomDraws :
        /\ strategy = "LRU"
        /\ Running
        /\ events # <<>>
        /\ Head(events).status = REQUEST
        /\ has_computationalSpot(Head(events).node)
        /\ LET e == Head(events)
               node == e.node
               service == e.service
               pl == LruPrelude(e.time)
               m == LruCounters(pl)
               path == shortest_path(node, content_source(service))
           IN /\ LruAfterPrelude(pl)
              /\ now' = e.time
              /\ IF Len(path) < 2
                 THEN \* line 444: path[1] of a one-node path
                      /\ fault' = "IndexError: list index out of range"
                      /\ events' = Tail(events)
                      /\ SetCounters(m)
                      /\ UNCHANGED <<schedVars, lruCache, numberOfServiceInstances, session>>
                 ELSE LET next_node == path[2]
                          delay == path_delay(node, next_node)
                          inst == numberOfServiceInstances
                          a == admit_task(node, service, e.time, e.flow_id, e.deadline,
                                          e.receiver, e.rtt_delay, inst,
                                          coreFinishTime[node], taskQueue[node],
                                          upcomingTaskQueue[node])
                          d == schedule(coreFinishTime[node], a.tq,
                                        upcomingTaskQueue[node], e.time)
                          pc == put_content(lruCache[node], service)
                          noSlack == LruNoSlack(e.deadline, e.time, e.rtt_delay, delay,
                                                service)
                          upstream == Event(e.time + delay, e.receiver, service,
                                            next_node, e.flow_id, e.deadline,
                                            e.rtt_delay + 2 * delay, REQUEST)
                      IN IF a.ret
                         THEN /\ lruCache' = [lruCache EXCEPT
                                                 ![node] = get_content(@, service)]
                              /\ SetCounters([m EXCEPT !.run[node][service] = @ + 1])
                              /\ taskQueue' = [taskQueue EXCEPT ![node] = d.tq]
                              /\ upcomingTaskQueue' =
                                     [upcomingTaskQueue EXCEPT ![node] = d.uq]
                              /\ coreFinishTime' =
                                     [coreFinishTime EXCEPT ![node] = d.cores]
                              /\ events' =
                                     IF d.found
                                     THEN add_event(Tail(events),
                                              Event(d.task.completionTime,
                                                    d.task.receiver, d.task.service,
                                                    node, d.task.flow_id, d.task.expiry,
                                                    d.task.rtt_delay, TASK_COMPLETE))
                                     ELSE Tail(events)
                              /\ UNCHANGED <<fault, numberOfServiceInstances, session>>
                         ELSE IF a.reason = NO_INSTANCES /\ noSlack
                         THEN \* line 452: reassign_vm called with five arguments
                              /\ lruCache' = [lruCache EXCEPT ![node] = pc.cache]
                              /\ fault' = "TypeError: reassign_vm() takes 5 arguments"
                              /\ events' = Tail(events)
                              /\ SetCounters(m)
                              /\ UNCHANGED <<schedVars, numberOfServiceInstances, session>>
                         ELSE IF a.reason = NO_INSTANCES /\ LruInstalls(draw)
                         THEN /\ lruCache' = [lruCache EXCEPT ![node] = pc.cache]
                              /\ numberOfServiceInstances' =
                                     [inst EXCEPT ![node] =
                                         reassign_vm(@, pc.evicted, service)]
                              /\ events' = add_event(Tail(events), upstream)
                              /\ SetCounters(m)
                              /\ session' = [session EXCEPT
                                                ![e.flow_id].notHostedAt = node]
                              /\ UNCHANGED <<fault, schedVars>>
                         ELSE /\ events' = add_event(Tail(events), upstream)
                              /\ SetCounters(IF a.reason = NO_INSTANCES THEN m
                                             ELSE [m EXCEPT !.miss[node][service] = @ + 1])
                              /\ session' = IF a.reason = NO_INSTANCES
                                            THEN [session EXCEPT
                                                     ![e.flow_id].notHostedAt = node]
                                            ELSE session
                              /\ UNCHANGED <<fault, schedVars, lruCache,
                                             numberOfServiceInstances>>
        /\ UNCHANGED <<configVars, coordVars, lastRoute, flows>>

\* lines 425-439: TASK_COMPLETE
LruTaskComplete ==
    /\ strategy = "LRU"
    /\ Running
    /\ events # <<>>
    /\ Head(events).status = TASK_COMPLETE
    /\ LET e == Head(events)
           node == e.node
           pl == LruPrelude(e.time)
           d == schedule(coreFinishTime[node], taskQueue[node], upcomingTaskQueue[node],
                         e.time)
           q1 == IF d.found
                 THEN add_event(Tail(events),
                          Event(d.task.completionTime, d.task.receiver, d.task.service,
                                node, d.task.flow_id, d.task.expiry, d.task.rtt_delay,
                                TASK_COMPLETE))
                 ELSE Tail(events)
           next_node == NextHop(node, e.receiver)
           delay == link_delay(node, next_node)
       IN /\ LruAfterPrelude(pl)
          /\ SetCounters(LruCounters(pl))
          /\ now' = e.time
          /\ taskQueue' = [taskQueue EXCEPT ![node] = d.tq]
          /\ upcomingTaskQueue' = [upcomingTaskQueue EXCEPT ![node] = d.uq]
          /\ coreFinishTime' = [coreFinishTime EXCEPT ![node] = d.cores]
          /\ events' = add_event(q1, Event(e.time + delay, e.receiver, e.service,
                                           next_node, e.flow_id, e.deadline, e.rtt_delay,
                                           RESPONSE))
    /\ UNCHANGED <<configVars, lruCache, coordVars, fault, lastRoute, flows, session,
                   numberOfServiceInstances>>

\* lines 414-423: RESPONSE
LruResponse ==
    /\ strategy = "LRU"
    /\ Running
    /\ events # <<>>
    /\ Head(events).status = RESPONSE
    /\ LET e == Head(events)
           node == e.node
           pl == LruPrelude(e.time)
       IN /\ LruAfterPrelude(pl)
          /\ SetCounters(LruCounters(pl))
          /\ now' = e.time
          /\ IF node = e.receiver
             THEN /\ session' = end_session(session, e.time, e.flow_id)
                  /\ events' = Tail(events)
             ELSE LET next_node == NextHop(node, e.receiver)
                      delay == link_delay(node, next_node)
                  IN /\ events' = add_event(Tail(events),
                                      Event(e.time + delay, e.receiver, e.service,
                                            next_node, e.flow_id, e.deadline,
                                            e.rtt_delay, RESPONSE))
                     /\ UNCHANGED session
    /\ UNCHANGED <<configVars, lruCache, coordVars, fault, schedVars, lastRoute, flows,
                   numberOfServiceInstances>>

\* Lru.__init__ (lines 348-357)
InitLru ==
    /\ strategy = "LRU"
    /\ replacement_interval \in {2}
    /\ pyRound = "half_up"
    /\ n_replacements = 1
    /\ lru_p \in {0, 2, 4}
    /\ lruCache = InitCache
    /\ last_replacement = 0
    /\ numberOfServiceInstances = InitialPlacement
    /\ numVMsPerService = InitialPlacement
    /\ serviceNodeUtil = ZeroUtil
    /\ running_requests = ZeroCounts
    /\ missed_requests = ZeroCounts
    /\ deadline_metric = ZeroMetric
    /\ cand_deadline_metric = ZeroMetric
    /\ InitScheduler
    /\ InitHarness

NextLru ==
    \/ LruRequestAtReceiver
    \/ LruRequestAtNode
    \/ LruTaskComplete
    \/ LruResponse

SpecLru == InitLru /\ [][NextLru]_vars

\* ------------------------------------------------------------------------
\* The five strategies side by side: one simulation runs one strategy
\* ------------------------------------------------------------------------
InitAll == InitCoord \/ InitEdge \/ InitLru

NextAll ==
    \/ CoordRequestAtReceiver
    \/ CoordRequestAtSpot
    \/ CoordTaskComplete
    \/ CoordResponse
    \/ EdgeRequestAtReceiver
    \/ EdgeRequestAtCloud
    \/ EdgeRequestAtSpot
    \/ EdgeTaskComplete
    \/ EdgeResponse
    \/ LruRequestAtReceiver
    \/ LruRequestAtNode
    \/ LruTaskComplete
    \/ LruResponse

SpecAll == InitAll /\ [][NextAll]_vars

\* ------------------------------------------------------------------------
\* Events whose status is none of REQUEST, RESPONSE, TASK_COMPLETE
\* ------------------------------------------------------------------------
UNKNOWN_STATUS == 3

\* the malformed events the harness may hold: one event for time 1 at a compute
\* spot below the cloud
StrayEvents ==
    {Event(1, 12, 1, n, 0, 1 + ServiceDeadline[1], 0, UNKNOWN_STATUS) : n \in EdgeNodes}

\* the harness queues a malformed event before the simulation starts
InjectStray ==
    \E e \in StrayEvents :
        /\ Running
        /\ now = 0
        /\ flows = 0
        /\ events = <<>>
        /\ events' = <<e>>
        /\ UNCHANGED <<configVars, lruCache, coordVars, fault, schedVars, metricVars,
                       lastRoute, lastPass, flows, session, now, last_replacement,
                       numberOfServiceInstances>>

IsStray(e) == e.status \notin {REQUEST, RESPONSE, TASK_COMPLETE}

\* Coordinated.process_event, lines 339-341: no branch matches, sys.exit
CoordStray ==
    /\ strategy = "COORDINATED"
    /\ Running
    /\ events # <<>>
    /\ IsStray(Head(events))
    /\ \E e \in {Head(events)} : \E pl \in {CoordPrelude(e.time)} :
          /\ CoordAfterPrelude(pl)
          /\ serviceNodeUtil' = pl.util
          /\ now' = e.time
          /\ CoordUnexpected(Tail(events))
    /\ UNCHANGED <<configVars, lruCache, metricVars, flows, lastRoute>>

\* Hybrid.process_event lines 714-715 (MFU 944-945, SDF 1172-1173): the else
\* branch prints "Error: unrecognised status value" and returns
EdgeStray ==
    /\ strategy \in EdgeStrategies
    /\ Running
    /\ events # <<>>
    /\ IsStray(Head(events))
    /\ Head(events).node \in EdgeNodes
    /\ LET e == Head(events)
           pl == EdgePrelude(e.time)
       IN /\ EdgeAfterPrelude(pl)
          /\ SetMetrics(MetricsAfter(pl))
          /\ now' = e.time
          /\ events' = Tail(events)
    /\ UNCHANGED <<configVars, lruCache, coordVars, fault, schedVars, lastRoute, flows,
                   session>>

\* Lru.process_event lines 414-459: at a compute spot no branch of the
\* if/elif chain matches and there is no else: the call returns
LruStray ==
    /\ strategy = "LRU"
    /\ Running
    /\ events # <<>>
    /\ IsStray(Head(events))
    /\ has_computationalSpot(Head(events).node)
    /\ LET e == Head(events)
           pl == LruPrelude(e.time)
       IN /\ LruAfterPrelude(pl)
          /\ SetCounters(LruCounters(pl))
          /\ now' = e.time
          /\ events' = Tail(events)
    /\ UNCHANGED <<configVars, lruCache, coordVars, fault, schedVars, lastRoute, flows,
                   session, numberOfServiceInstances>>

NextStray ==
    \/ NextAll
    \/ InjectStray
    \/ CoordStray
    \/ EdgeStray
    \/ LruStray

SpecStray == InitAll /\ [][NextStray]_vars

\* ------------------------------------------------------------------------
\* One replacement pass on its own: replace_services applied to the counters
\* an interval has accumulated
\* ------------------------------------------------------------------------
MaxRequests == 3

\* lines 288-292 repeated: the demand left by `count` requests of a receiver
RECURSIVE RequestsFrom(_, _, _, _)
RequestsFrom(util, receiver, service, count) ==
    IF count = 0 THEN util
    ELSE RequestsFrom(AddDemand(util, receiver,
                                PySliceFrom(shortest_path(receiver,
                                                          content_source(service)), 1),
                                service),
                      receiver, service, count - 1)

RECURSIVE DemandOf(_, _, _)
DemandOf(util, recvs, d) ==
    IF recvs = <<>> THEN util
    ELSE DemandOf(RequestsFrom(util, Head(recvs), d[Head(recvs)].service,
                               d[Head(recvs)].count),
                  Tail(recvs), d)

\* Coordinated.__init__ followed by an interval in which every receiver has
\* issued up to MaxRequests requests for one service
InitPassCoord ==
    /\ strategy = "COORDINATED"
    /\ replacement_interval \in {2}
    /\ pyRound \in {"half_up", "half_even"}
    /\ n_replacements = 1
    /\ lru_p = 2
    /\ lruCache = InitCache
    /\ last_replacement = 0
    /\ numberOfServiceInstances = InitialPlacement
    /\ numVMsPerService = InitialPlacement
    /\ \E d \in [Receivers -> [service : WorkloadServices, count : 0..MaxRequests]] :
          serviceNodeUtil = DemandOf(ZeroUtil, AscSeq(Receivers), d)
    /\ running_requests = ZeroCounts
    /\ missed_requests = ZeroCounts
    /\ deadline_metric = ZeroMetric
    /\ cand_deadline_metric = ZeroMetric
    /\ InitScheduler
    /\ InitHarness

\* the counters one service can show at a spot when an interval ends: a
\* service is served only where it is resident, and slack is recorded only
\* with a request
RunDraws == {0, 1}
MissDraws == {0, 1, 3, 100}
SlackDraws == {0, 1, 5}
CounterDraws(strat, resident) ==
    {c \in [run : RunDraws, miss : MissDraws, dm : RunDraws, cm : SlackDraws] :
        /\ c.run > 0 => resident
        /\ c.dm > 0 => c.run > 0
        /\ strat # "HYBRID" => (c.cm = 0 \/ c.cm < c.miss)}

\* the placements of a spot with one or two VMs
PassPlacements ==
    {p \in [Services -> 0..2] : SumOver(p, Services) \in {1, 2}}

\* Hybrid.__init__, MostFrequentlyUsed.__init__, StrictestDeadlineFirst.__init__
\* followed by an interval that left counters at one spot
InitPassEdge ==
    /\ strategy \in EdgeStrategies
    /\ replacement_interval \in {2}
    /\ pyRound = "half_up"
    /\ n_replacements = 1
    /\ lru_p = 2
    /\ lruCache = InitCache
    /\ last_replacement = 0
    /\ numVMsPerService = InitialPlacement
    /\ serviceNodeUtil = ZeroUtil
    /\ \E node \in EdgeNodes, p \in PassPlacements :
       \E c \in [Services -> CounterDraws(strategy, TRUE)] :
          /\ \A s \in Services : c[s] \in CounterDraws(strategy, p[s] > 0)
          /\ numberOfServiceInstances = [InitialPlacement EXCEPT ![node] = p]
          /\ running_requests = [ZeroCounts EXCEPT ![node] = [s \in Services |-> c[s].run]]
          /\ missed_requests = [ZeroCounts EXCEPT ![node] = [s \in Services |-> c[s].miss]]
          /\ deadline_metric =
                [ZeroMetric EXCEPT ![node] = [s \in Services |-> Frac(c[s].dm, 1)]]
          /\ cand_deadline_metric =
                [ZeroMetric EXCEPT ![node] = [s \in Services |-> Frac(c[s].cm, 1)]]
    /\ InitScheduler
    /\ InitHarness

\* lines 265-270: the first event after the interval is over runs the pass
PassCoord ==
    /\ strategy = "COORDINATED"
    /\ ~lastPass.ran
    /\ \E time \in {last_replacement + replacement_interval + 1} :
       \E pl \in {CoordPrelude(time)} :
          /\ CoordAfterPrelude(pl)
          /\ serviceNodeUtil' = pl.util
          /\ now' = time
    /\ UNCHANGED <<configVars, lruCache, events, fault, schedVars, metricVars, flows,
                   session, lastRoute>>

\* lines 614-620, 846-851, 1074-1079
PassEdge ==
    /\ strategy \in EdgeStrategies
    /\ ~lastPass.ran
    /\ \E time \in {last_replacement + replacement_interval + 1} :
       \E pl \in {EdgePrelude(time)} :
          /\ EdgeAfterPrelude(pl)
          /\ SetMetrics(MetricsAfter(pl))
          /\ now' = time
    /\ UNCHANGED <<configVars, lruCache, events, fault, schedVars, coordVars, flows,
                   session, lastRoute>>

InitPass == InitPassCoord \/ InitPassEdge

NextPass ==
    \/ PassCoord
    \/ PassEdge

SpecPass == InitPass /\ [][NextPass]_vars

\* ------------------------------------------------------------------------
\* Properties
\* ------------------------------------------------------------------------
TotalInstances(n) == SumOver(numberOfServiceInstances[n], Services)

\* C1: under COORDINATED every non-cloud spot has sum(service_instances) equal
\* to num_VMs at every event boundary.
C1_AllVMsAssigned ==
    strategy = "COORDINATED" => \A n \in EdgeNodes : TotalInstances(n) = NumVMs[n]

\* C2: a COORDINATED replacement pass that starts with every serviceNodeUtil
\* entry zero leaves every spot's service_instances as it was before the pass.
C2_ZeroTrafficPassKeepsPlacement ==
    (strategy = "COORDINATED" /\ lastPass.ran /\ lastPass.zero)
        => lastPass.post = lastPass.pre

Quiescent == events = <<>> \/ ~Running

\* C4: under COORDINATED, once the simulation has nothing left to deliver, every
\* flow whose session was started has ended exactly once, and no flow ever ends
\* twice.
C4_EveryFlowEndsOnce ==
    strategy = "COORDINATED" =>
        /\ \A f \in Flows : session[f].ended <= 1
        /\ Quiescent => \A f \in Flows : session[f].started = 1 => session[f].ended = 1

\* C3: under HYBRID, MFU and SDF a replacement pass that starts with
\* running_requests, missed_requests, deadline_metric and cand_deadline_metric
\* all zero at every node makes no reassign_vm call and leaves every spot's
\* service_instances as it was.
C3_ZeroCounterPassReassignsNothing ==
    (strategy \in EdgeStrategies /\ lastPass.ran /\ lastPass.zero) =>
        /\ \A n \in EdgeNodes : lastPass.reports[n] = <<>>
        /\ lastPass.post = lastPass.pre

C3_Witness ==
    /\ strategy \in EdgeStrategies
    /\ lastPass.ran
    /\ lastPass.zero
    /\ flows >= 1
    /\ \E n \in EdgeNodes, s \in Services : lastPass.pre[n][s] > 0

\* C5: under HYBRID, MFU and SDF no flow ends twice, and every flow whose session
\* was started eventually gets its end_session.
C5_StartedFlowsEventuallyEndOnce ==
    /\ [](strategy \in EdgeStrategies => \A f \in Flows : session[f].ended <= 1)
    /\ \A f \in Flows :
           (strategy \in EdgeStrategies /\ session[f].started = 1)
               ~> (session[f].ended = 1)

C5_Witness ==
    /\ strategy \in EdgeStrategies
    /\ \E f \in Flows :
           /\ session[f].forwardedBy \in EdgeNodes
           /\ session[f].started = 1
           /\ session[f].ended = 1

\* C6: under LRU with p = 0, once the simulation has nothing left to deliver (and
\* did not halt on the reassign_vm call of line 452, which is only reached when
\* the slack rules out upstream execution), every flow whose REQUEST met an edge
\* spot that does not host the service has had its end_session.
C6_NotHostedRequestAnsweredByCloud ==
    (/\ strategy = "LRU"
     /\ lru_p = 0
     /\ Quiescent
     /\ fault # "TypeError: reassign_vm() takes 5 arguments") =>
        \A f \in Flows :
            session[f].notHostedAt \in EdgeNodes => session[f].ended = 1

RoutedToEdge == strategy = "COORDINATED" /\ lastRoute.node \in EdgeNodes

MeetsOwnDeadline(task, n) ==
    task.completionTime <= task.expiry - path_delay(n, task.receiver)

\* C7: when find_topmost_feasible_node routes a request to an edge spot, the task
\* it left in the spot's upcoming queue has projected completion time at most
\* expiry - path_delay(spot, receiver).
C7_RoutedTaskFeasible ==
    RoutedToEdge =>
        \E i \in 1..Len(lastRoute.queue) :
            /\ lastRoute.queue[i].flow_id = lastRoute.flow_id
            /\ lastRoute.queue[i].completionTime # NoTime
            /\ MeetsOwnDeadline(lastRoute.queue[i], lastRoute.node)

C7_Witness ==
    /\ RoutedToEdge
    /\ Len(lastRoute.queue) >= 2
    /\ lastRoute.queue[Len(lastRoute.queue)].flow_id = lastRoute.flow_id

\* C8: a request is routed to an edge spot only if every task queued there still
\* meets expiry - path_delay(spot, its own receiver) with the request inserted.
C8_QueuedTasksStayFeasible ==
    RoutedToEdge =>
        \A i \in 1..Len(lastRoute.queue) :
            MeetsOwnDeadline(lastRoute.queue[i], lastRoute.node)

\* C9: every request routed to an edge spot has its RESPONSE delivered at the
\* receiver no later than the request's deadline.
C9_EdgeResponsesInTime ==
    strategy = "COORDINATED" =>
        \A f \in Flows :
            (session[f].ended >= 1 /\ session[f].node \in EdgeNodes)
                => session[f].endTime <= session[f].deadline

NonDecreasingArrival(q) ==
    \A i \in 1..(Len(q) - 1) : q[i].arrivalTime <= q[i + 1].arrivalTime

\* C10: under COORDINATED every upcoming_task_queue is non-decreasing in arrival
\* time after every event, and so was every queue a probe inserted into.
C10_UpcomingQueueSorted ==
    strategy = "COORDINATED" =>
        /\ \A n \in EdgeNodes : NonDecreasingArrival(upcomingTaskQueue[n])
        /\ \A k \in 1..Len(lastRoute.probed) :
               NonDecreasingArrival(lastRoute.probed[k].queue)

C10_Witness ==
    /\ strategy = "COORDINATED"
    /\ \E n \in EdgeNodes :
           /\ Len(upcomingTaskQueue[n]) >= 2
           /\ upcomingTaskQueue[n][1].flow_id > upcomingTaskQueue[n][2].flow_id
           /\ upcomingTaskQueue[n][1].arrivalTime < upcomingTaskQueue[n][2].arrivalTime

\* C11: in a COORDINATED replacement pass, right after node v has been processed,
\* serviceNodeUtil[recv][n][service] is zero for every receiver, every service
\* and every compute node n on the path from the receiver to v, v included.
C11_PathsClearedAfterNode ==
    (strategy = "COORDINATED" /\ lastPass.ran) =>
        \A v \in EdgeNodes, recv \in Receivers, service \in Services, n \in EdgeNodes :
            InSeq(n, shortest_path(recv, v))
                => lastPass.snap[v][RecvIndex(recv)][n][service] = 0

\* the step delivers a RESPONSE at its receiver: the handler itself leaves the
\* per-interval counters alone
DeliversResponseAtReceiver ==
    /\ events # <<>>
    /\ flows' = flows
    /\ Head(events).status = RESPONSE
    /\ Head(events).node = Head(events).receiver

CountersReset ==
    /\ strategy = "COORDINATED" => serviceNodeUtil' = ZeroUtil
    /\ strategy # "COORDINATED" =>
           running_requests' = ZeroCounts /\ missed_requests' = ZeroCounts
    /\ strategy \in EdgeStrategies =>
           deadline_metric' = ZeroMetric /\ cand_deadline_metric' = ZeroMetric

CountersKept == UNCHANGED <<serviceNodeUtil, metricVars>>

\* what every strategy does when the event at time now' finds the interval over
IntervalOver ==
    /\ last_replacement' = now'
    /\ DeliversResponseAtReceiver => CountersReset

IntervalNotOver ==
    /\ last_replacement' = last_replacement
    /\ lastPass' = lastPass
    /\ DeliversResponseAtReceiver => CountersKept

OnePassRuns ==
    /\ lastPass'.ran
    /\ lastPass'.time = now'
    /\ lastPass'.count = lastPass.count + 1
    /\ lastPass.ran => lastPass'.time - lastPass.time > replacement_interval

DeliversUnknownStatus ==
    /\ events # <<>>
    /\ IsStray(Head(events))
    /\ flows' = flows
    /\ now' = Head(events).time
    /\ events' = Tail(events)

\* C13: in every strategy, delivering an event whose status is none of REQUEST,
\* RESPONSE, TASK_COMPLETE halts the simulation with a fault instead of
\* returning normally.
C13_UnknownStatusHalts ==
    [][DeliversUnknownStatus => fault' # "none"]_vars

\* C15: under COORDINATED a REQUEST delivered at a non-origin compute node
\* always finds a task with its flow id in the node's upcoming queue, so the
\* fault "No task with the given flow id in the upcomingTaskQueue" is never
\* raised, whatever the order of same-time events.
C15_RoutedTaskStillQueued ==
    strategy = "COORDINATED" =>
        fault # "No task with the given flow id in the upcomingTaskQueue"


\* a step of HYBRID, MFU or SDF that delivers a REQUEST at the service's origin
DeliversRequestAtOrigin ==
    /\ strategy \in EdgeStrategies
    /\ events # <<>>
    /\ Head(events).status = REQUEST
    /\ Head(events).node = content_source(Head(events).service)
    /\ flows' = flows
    /\ now' = Head(events).time

\* every REQUEST or RESPONSE in the queue after the step was waiting before it
NoFollowUpEvent ==
    \A i \in 1..Len(events') :
        events'[i].status \in {REQUEST, RESPONSE}
            => \E j \in 2..Len(events) : events[j] = events'[i]

\* the cloud took the task: its TASK_COMPLETE, and nothing else, joins the queue
AdmittedAtCloud ==
    /\ fault' = "none"
    /\ Len(events') = Len(events)
    /\ \E i \in 1..Len(events') :
          /\ events'[i].status = TASK_COMPLETE
          /\ events'[i].node = Head(events).node
          /\ events'[i].flow_id = Head(events).flow_id

RejectedAtCloud ==
    /\ fault' = "Task should not be rejected at the cloud."
    /\ events' = Tail(events)

OnLine(recv) == recv \in Receivers /\ IsCloud(Parent[Parent[recv]])
LineStrategy == strategy \in {"COORDINATED", "HYBRID"}
\* the time the only flow was issued, from the deadline recorded at its start
IssuedAt(service) == session[1].deadline - ServiceDeadline[service]
EdgeDoneAt(recv, service) ==
    IssuedAt(service) + link_delay(recv, Parent[recv]) + ServiceTime[service]

\* the workload issues the first request from the line's receiver
LineIssue ==
    /\ LineStrategy
    /\ flows = 0 /\ flows' = 1
    /\ events' # <<>>
    /\ OnLine(Head(events').receiver)
    /\ strategy = "COORDINATED" =>
          numberOfServiceInstances'[Parent[Head(events').receiver]][Head(events').service] >= 1

LineIssued ==
    /\ events' = <<Event(now' + link_delay(Head(events').receiver,
                                           Parent[Head(events').receiver]),
                         Head(events').receiver, Head(events').service,
                         Parent[Head(events').receiver], 1, Head(events').deadline,
                         Head(events').rtt_delay, REQUEST)>>
    /\ session'[1].started = 1
    /\ session'[1].deadline = now' + ServiceDeadline[Head(events').service]

\* a step that delivers the only flow's event e and issues no second request
LineDelivers(status) ==
    /\ LineStrategy
    /\ flows = 1 /\ flows' = 1
    /\ events # <<>>
    /\ Head(events).status = status
    /\ OnLine(Head(events).receiver)
    /\ now' = Head(events).time

LineRequestAtEdge ==
    /\ LineDelivers(REQUEST)
    /\ Head(events).node = Parent[Head(events).receiver]
    /\ strategy = "HYBRID" =>
          numberOfServiceInstances'[Head(events).node][Head(events).service] >= 1

LineAccepted ==
    /\ fault' = "none"
    /\ Head(events).time =
          IssuedAt(Head(events).service)
              + link_delay(Head(events).receiver, Head(events).node)
    /\ Len(events') = 1
    /\ Head(events').status = TASK_COMPLETE
    /\ Head(events').node = Head(events).node
    /\ Head(events').flow_id = 1
    /\ Head(events').time = EdgeDoneAt(Head(events).receiver, Head(events).service)

LineCompleteAtEdge ==
    /\ LineDelivers(TASK_COMPLETE)
    /\ Head(events).node = Parent[Head(events).receiver]

LineAnswered ==
    /\ fault' = "none"
    /\ Head(events).time = EdgeDoneAt(Head(events).receiver, Head(events).service)
    /\ Len(events') = 1
    /\ Head(events').status = RESPONSE
    /\ Head(events').node = Head(events).receiver
    /\ Head(events').time =
          Head(events).time + link_delay(Head(events).node, Head(events).receiver)

LineResponseAtReceiver ==
    /\ LineDelivers(RESPONSE)
    /\ Head(events).node = Head(events).receiver
    /\ IF strategy = "COORDINATED"
       THEN session[1].node = Parent[Head(events).receiver]
       ELSE session[1].forwardedBy = NoNode

LineEnded ==
    /\ Head(events).time =
          EdgeDoneAt(Head(events).receiver, Head(events).service)
              + link_delay(Parent[Head(events).receiver], Head(events).receiver)
    /\ session'[1].started = 1
    /\ session'[1].ended = 1
    /\ session'[1].endTime = Head(events).time
    /\ events' = <<>>

\* C17: on a receiver-edge-cloud line whose idle edge spot hosts the service,
\* a single REQUEST issued at t0 reaches the edge at t0 + link_delay, is
\* accepted there and not forwarded, completes at t0 + link_delay +
\* service_time, and end_session is called at the receiver at
\* t0 + 2*link_delay + service_time (COORDINATED and HYBRID).
C17_SingleRequestServedAtEdge ==
    [][/\ LineIssue => LineIssued
       /\ LineRequestAtEdge => LineAccepted
       /\ LineCompleteAtEdge => LineAnswered
       /\ LineResponseAtReceiver => LineEnded]_vars

C17_Witness ==
    /\ LineStrategy
    /\ flows = 1
    /\ events = <<>>
    /\ session[1].ended = 1
    /\ session[1].forwardedBy = NoNode
    /\ strategy = "COORDINATED" => OnLine(lastRoute.receiver) /\ session[1].node = Parent[lastRoute.receiver]
    /\ \E recv \in Receivers, service \in Services :
          /\ OnLine(recv)
          /\ has_service(numberOfServiceInstances, Parent[recv], service)
          /\ session[1].endTime =
                EdgeDoneAt(recv, service) + link_delay(Parent[recv], recv)


\* the S4 demand at an edge node: two receivers below it have each asked for
\* `heavy` at least twice and for nothing else, a receiver elsewhere has asked
\* once for `light` and for nothing else
OnlyDemand(recv, service, atLeast, atMost) ==
    /\ serviceNodeUtil[RecvIndex(recv)][Parent[recv]][service] >= atLeast * ServiceTime[service]
    /\ serviceNodeUtil[RecvIndex(recv)][Parent[recv]][service] <= atMost * ServiceTime[service]
    /\ \A s \in Services \ {service} :
          serviceNodeUtil[RecvIndex(recv)][Parent[recv]][s] = 0

S4Demand(edge, heavy, light) ==
    \E r1, r2, r3 \in Receivers :
        /\ r1 # r2 /\ Parent[r1] = edge /\ Parent[r2] = edge /\ Parent[r3] # edge
        /\ OnlyDemand(r1, heavy, 2, MaxRequests)
        /\ OnlyDemand(r2, heavy, 2, MaxRequests)
        /\ OnlyDemand(r3, light, 1, 1)

\* C18: under COORDINATED, when two receivers below one edge node have heavy
\* demand for service 0 and a third receiver has one request for service 1,
\* the edge node holds at least one VM for service 0 after one pass, also
\* though the node above it is processed first.
C18_EdgeKeepsHeavyService ==
    [][(strategy = "COORDINATED" /\ ~lastPass.ran /\ lastPass'.ran)
          => \A edge \in EdgeNodes :
                S4Demand(edge, 0, 1) => numberOfServiceInstances'[edge][0] >= 1]_vars


\* the S5 state of a spot: `resident` is the only service with an instance
\* (one), has served one request and recorded slack 1; `missed` has no
\* instance, 100 missed requests and recorded slack 5; both take one time
\* unit; no other counter is set
S5State(node, missed, resident) ==
    /\ missed # resident
    /\ ServiceTime[missed] = 1 /\ ServiceTime[resident] = 1
    /\ numberOfServiceInstances[node] =
          [s \in Services |-> IF s = resident THEN 1 ELSE 0]
    /\ running_requests[node] = [s \in Services |-> IF s = resident THEN 1 ELSE 0]
    /\ missed_requests[node] = [s \in Services |-> IF s = missed THEN 100 ELSE 0]
    /\ deadline_metric[node] =
          [s \in Services |-> IF s = resident THEN Frac(1, 1) ELSE Frac(0, 1)]
    /\ cand_deadline_metric[node] =
          [s \in Services |-> IF s = missed THEN Frac(5, 1) ELSE Frac(0, 1)]

HybridPassRuns == strategy = "HYBRID" /\ ~lastPass.ran /\ lastPass'.ran

\* C19: a HYBRID pass at a spot in the S5 state makes exactly one reassign_vm,
\* from the resident service to the missed service.
C19_OneSwapToMissedService ==
    [][HybridPassRuns =>
          \A node \in EdgeNodes, missed \in Services, resident \in Services :
              S5State(node, missed, resident) =>
                  /\ lastPass'.reports[node] = <<[from |-> resident, to |-> missed]>>
                  /\ numberOfServiceInstances'[node] =
                        [s \in Services |-> IF s = missed THEN 1 ELSE 0]]_vars

C19_Witness ==
    /\ strategy = "HYBRID"
    /\ lastPass.ran
    /\ \E node \in EdgeNodes, missed \in Services, resident \in Services :
          /\ missed # resident
          /\ ServiceTime[missed] = 1 /\ ServiceTime[resident] = 1
          /\ lastPass.pre[node] = [s \in Services |-> IF s = resident THEN 1 ELSE 0]
          /\ lastPass.reports[node] = <<[from |-> resident, to |-> missed]>>
          /\ numberOfServiceInstances[node] =
                [s \in Services |-> IF s = missed THEN 1 ELSE 0]


\* the S6 state of a spot: A and B have no instance there and both have
\* missed requests; A has the larger missed_requests x service_time, B the
\* smaller average recorded slack
S6State(node, A, B) ==
    /\ n_replacements = 1
    /\ A # B
    /\ numberOfServiceInstances[node][A] = 0
    /\ numberOfServiceInstances[node][B] = 0
    /\ missed_requests[node][A] > 0
    /\ missed_requests[node][B] > 0
    /\ missed_requests[node][A] * ServiceTime[A] > missed_requests[node][B] * ServiceTime[B]
    /\ FracLess(FracDiv(cand_deadline_metric[node][B], missed_requests[node][B]),
                FracDiv(cand_deadline_metric[node][A], missed_requests[node][A]))

MfuOrSdfPassRuns == strategy \in {"MFU", "SDF"} /\ ~lastPass.ran /\ lastPass'.ran

\* C20: with n_replacements = 1 and two non-resident candidates A (larger
\* missed_requests x service_time) and B (smaller average recorded slack), the
\* VM an MFU pass reassigns goes to A and the VM an SDF pass reassigns on the
\* same state goes to B.
C20_MfuPrefersLoadSdfPrefersSlack ==
    [][MfuOrSdfPassRuns =>
          \A node \in EdgeNodes, A \in Services, B \in Services :
              S6State(node, A, B) =>
                  /\ Len(lastPass'.reports[node]) <= 1
                  /\ \A i \in 1..Len(lastPass'.reports[node]) :
                        lastPass'.reports[node][i].to =
                            IF strategy = "MFU" THEN A ELSE B]_vars

C20_Witness ==
    /\ strategy \in {"MFU", "SDF"}
    /\ n_replacements = 1
    /\ lastPass.ran
    /\ \E node \in EdgeNodes, A \in Services, B \in Services :
          /\ A # B
          /\ lastPass.pre[node][A] = 0
          /\ lastPass.pre[node][B] = 0
          /\ Len(lastPass.reports[node]) = 1
          /\ lastPass.reports[node][1].to = IF strategy = "MFU" THEN A ELSE B
          /\ numberOfServiceInstances[node][A] + numberOfServiceInstances[node][B] = 1

\* ------------------------------------------------------------------------
\* MFU against HYBRID on a REQUEST at an intermediate node
\* ------------------------------------------------------------------------
FracEq(a, b) == a.num * b.den = b.num * a.den

\* a step that handles the REQUEST at the head of the queue at an edge spot,
\* with no replacement due
SpotRequestStep(strat) ==
    /\ strategy = strat
    /\ Running
    /\ events # <<>>
    /\ Head(events).status = REQUEST
    /\ Head(events).node \in EdgeNodes
    /\ ~ReplacementDue(Head(events).time)
    /\ flows' = flows
    /\ events' # events

\* the counters HYBRID's branch leaves from the current state and event
HybridCountersAfter ==
    LET e == Head(events)
        a == admit_task(e.node, e.service, e.time, e.flow_id, e.deadline,
                        e.receiver, e.rtt_delay, numberOfServiceInstances,
                        coreFinishTime[e.node], taskQueue[e.node],
                        upcomingTaskQueue[e.node])
    IN SpotMetrics("HYBRID",
                   [run |-> running_requests, miss |-> missed_requests,
                    dm |-> deadline_metric, cm |-> cand_deadline_metric],
                   e.node, e.service,
                   SlackMetric("HYBRID", e.deadline, e.time, e.rtt_delay, e.service),
                   has_service(numberOfServiceInstances, e.node, e.service), a.ret)

\* C21: MFU handles a REQUEST at an intermediate node as HYBRID does: from the
\* same state and event it leaves running_requests, missed_requests,
\* deadline_metric and cand_deadline_metric as HYBRID would, the slack being
\* deadline - time - rtt_delay - service_time, not normalised.
C21_MfuRequestAsHybrid ==
    [][SpotRequestStep("MFU") =>
          \E h \in {HybridCountersAfter} :
              /\ running_requests' = h.run
              /\ missed_requests' = h.miss
              /\ \A n \in EdgeNodes, sv \in Services :
                    /\ FracEq(deadline_metric'[n][sv], h.dm[n][sv])
                    /\ FracEq(cand_deadline_metric'[n][sv], h.cm[n][sv])]_vars

\* ------------------------------------------------------------------------
\* Determinism of a delivery
\* ------------------------------------------------------------------------
\* the two ways the REQUEST at the head of the queue can leave the placement
LruKeepsPlacement ==
    LruRequestAtNode /\ numberOfServiceInstances' = numberOfServiceInstances

LruChangesPlacement ==
    LruRequestAtNode /\ numberOfServiceInstances' # numberOfServiceInstances

\* C22: every strategy is deterministic: from one state of the strategy (its
\* own random source included) the delivery of one event has one outcome, so two
\* runs fed the same events end with the same service_instances at every spot.
\* Here: the REQUEST at the head of LRU's queue cannot both change and keep
\* the placement.
C22_DeliveryHasOneOutcome ==
    ~(ENABLED LruKeepsPlacement /\ ENABLED LruChangesPlacement)

\* ------------------------------------------------------------------------
\* COORDINATED: the placement of a spot
\* ------------------------------------------------------------------------
VMsInUse(node) == SumOver(numberOfServiceInstances[node], Services)

\* C23: under COORDINATED, at every event boundary every non-cloud spot has
\* sum(service_instances) <= num_VMs and no negative service_instances entry:
\* the two allocation passes of replace_services never hand out more VMs than
\* the spot has.
C23_PlacementWithinVMs ==
    strategy = "COORDINATED" =>
        \A node \in EdgeNodes :
            /\ VMsInUse(node) <= NumVMs[node]
            /\ \A service \in Services : numberOfServiceInstances[node][service] >= 0

\* a pass has filled a spot whose counted demand asked for more VMs than it has
C23_Witness ==
    /\ strategy = "COORDINATED"
    /\ lastPass.ran
    /\ \E node \in EdgeNodes :
          /\ VMsInUse(node) = NumVMs[node]
          /\ numberOfServiceInstances[node] # lastPass.pre[node]
          /\ \E service \in Services :
                numberOfServiceInstances[node][service] = NumVMs[node]

\* ------------------------------------------------------------------------
\* COORDINATED: the spot a request is routed to
\* ------------------------------------------------------------------------
\* a step in which COORDINATED handles a new REQUEST at its receiver
RouteStep == strategy = "COORDINATED" /\ flows' = flows + 1

\* the event that step added for the new flow
RoutedEvent ==
    events'[CHOOSE i \in 1..Len(events') : events'[i].flow_id = flows']

\* spot n hosts the service, leaves enough slack and passes the queue probe
\* for the request of the step, on the queues as they are before the step
SpotFeasible(n, receiver, service, time, deadline, flow_id) ==
    LET delay == path_delay(receiver, n)
        aTask == Task(time, deadline, 2 * delay, n, service, ServiceTime[service],
                      flow_id, receiver, time + delay)
        cc == compute_completion_times(coreFinishTime[n], taskQueue[n],
                                       EnqueueUpcoming(upcomingTaskQueue[n], aTask))
        all == cc.tq \o cc.uq
    IN /\ numberOfServiceInstances'[n][service] >= 1
       /\ deadline - time - 2 * delay >= ServiceTime[service]
       /\ \A i \in 1..Len(all) : ~ProbeViolated(all[i], delay)

\* C24: find_topmost_feasible_node returns the feasible spot closest to the
\* origin: the returned spot is feasible and no non-cloud spot of the path
\* nearer the origin hosts the service, has the slack and passes the probe;
\* when no spot of the path qualifies the origin is returned and the only
\* event emitted is a RESPONSE at the receiver at
\* time + 2 * path_delay(receiver, origin) + service_time.
C24_TopmostFeasibleSpot ==
    [][RouteStep =>
          \E ev \in {RoutedEvent} : \E ret \in {lastRoute'.node} :
          LET receiver == ev.receiver
              origin == content_source(ev.service)
              onPath == {n \in EdgeNodes : InSeq(n, shortest_path(receiver, origin))}
              ok == {n \in onPath : SpotFeasible(n, receiver, ev.service, now',
                                                 ev.deadline, ev.flow_id)}
          IN /\ ret \in ok \cup {origin}
             /\ \A n \in ok : Depth[ret] <= Depth[n]
             /\ ok = {} =>
                    /\ ret = origin
                    /\ ev.status = RESPONSE
                    /\ ev.node = receiver
                    /\ ev.time = now' + 2 * path_delay(receiver, origin)
                                      + ServiceTime[ev.service]
                    /\ \A i \in 1..Len(events') :
                          events'[i].flow_id = ev.flow_id => events'[i].status # REQUEST
             /\ ok # {} => ret # origin /\ ev.status = REQUEST /\ ev.node = ret]_vars

\* one request went to the cloud because no spot qualified, and the latest one
\* was routed to the lower spot after the probe of the upper spot had failed
C24_Witness ==
    /\ strategy = "COORDINATED"
    /\ \E f \in 1..flows : session[f].started = 1 /\ session[f].node = CloudNode
    /\ lastRoute.node = 2
    /\ Len(lastRoute.probed) = 2
    /\ lastRoute.probed[1].node = 1

\* ------------------------------------------------------------------------
\* COORDINATED: what routing leaves in the queues
\* ------------------------------------------------------------------------
\* the tasks of a queue in order; completionTime is rewritten by every
\* compute_completion_times and is left out of the comparison
TasksOf(q) == [i \in 1..Len(q) |-> [q[i] EXCEPT !.completionTime = NoTime]]

HoldsFlow(q, flow_id) == \E i \in 1..Len(q) : q[i].flow_id = flow_id

\* C25: a failed probe leaves the spot's task_queue and upcoming_task_queue
\* with exactly the tasks they held before, in the same order; after
\* find_topmost_feasible_node returns, the task of the new flow is in the
\* upcoming queue of the returned spot and of no other spot, and in no queue
\* at all when the origin was returned.
C25_FailedProbeLeavesQueues ==
    [][RouteStep =>
          \E ret \in {lastRoute'.node} : \E f \in {flows'} :
              /\ \A n \in EdgeNodes \ {ret} :
                    /\ TasksOf(taskQueue'[n]) = TasksOf(taskQueue[n])
                    /\ TasksOf(upcomingTaskQueue'[n]) = TasksOf(upcomingTaskQueue[n])
              /\ \A n \in EdgeNodes :
                    /\ ~HoldsFlow(taskQueue'[n], f)
                    /\ HoldsFlow(upcomingTaskQueue'[n], f) <=> n = ret
              /\ ret \in EdgeNodes =>
                    /\ TasksOf(taskQueue'[ret]) = TasksOf(taskQueue[ret])
                    /\ TasksOf(SelectSeq(upcomingTaskQueue'[ret],
                                          LAMBDA t : t.flow_id # f))
                           = TasksOf(upcomingTaskQueue[ret])]_vars

\* the probe of the upper spot failed on a queue that holds tasks, and the
\* request was placed at the lower spot
C25_Witness ==
    /\ strategy = "COORDINATED"
    /\ lastRoute.node = 2
    /\ Len(lastRoute.probed) = 2
    /\ lastRoute.probed[1].node = 1
    /\ Len(taskQueue[1]) + Len(upcomingTaskQueue[1]) > 0
    /\ HoldsFlow(upcomingTaskQueue[2], lastRoute.flow_id)
    /\ ~HoldsFlow(upcomingTaskQueue[1], lastRoute.flow_id)

\* ------------------------------------------------------------------------
\* COORDINATED: the demand accumulator between passes
\* ------------------------------------------------------------------------
PassInStep == lastPass'.count # lastPass.count

\* C26: handling a REQUEST at its receiver adds exactly service_time to
\* serviceNodeUtil[receiver][n][service] for every non-cloud compute node n on
\* the path from the receiver to the origin, wherever the request is executed,
\* and changes no other entry (after a pass of the same call the accumulator
\* starts from zero); no other event changes the accumulator outside a pass.
C26_DemandAddedAlongPath ==
    [][strategy = "COORDINATED" =>
          IF RouteStep
          THEN \E ev \in {RoutedEvent} :
               \E base \in {IF PassInStep THEN ZeroUtil ELSE serviceNodeUtil} :
               \A ap \in RecvIndices, n \in EdgeNodes, sv \in Services :
                   serviceNodeUtil'[ap][n][sv] =
                       base[ap][n][sv] +
                           (IF /\ ap = RecvIndex(ev.receiver)
                               /\ sv = ev.service
                               /\ InSeq(n, shortest_path(ev.receiver,
                                                          content_source(ev.service)))
                            THEN ServiceTime[sv] ELSE 0)
          ELSE ~PassInStep => serviceNodeUtil' = serviceNodeUtil]_vars

\* demand is on record at both spots for a request executed at the lower one,
\* and at the one spot of its path for a request of rcv_12 sent to the cloud
C26_Witness ==
    /\ strategy = "COORDINATED"
    /\ lastRoute.receiver = 12
    /\ lastRoute.node = CloudNode
    /\ \E sv \in Services :
          /\ serviceNodeUtil[RecvIndex(12)][1][sv] > 0
          /\ serviceNodeUtil[RecvIndex(12)][2][sv] = 0
    /\ \E f \in 1..flows, sv \in Services :
          /\ session[f].node = 2
          /\ serviceNodeUtil[RecvIndex(10)][1][sv] > 0
          /\ serviceNodeUtil[RecvIndex(10)][2][sv] > 0

\* ------------------------------------------------------------------------
\* COORDINATED: services whose deadline cannot be met from a spot
\* ------------------------------------------------------------------------
\* some receiver has demand for the service at the node when the pass starts
\* and can be served from the node within the deadline
MeetsDeadlineFrom(node, service) ==
    \E recv \in Receivers :
        /\ serviceNodeUtil[RecvIndex(recv)][node][service] # 0
        /\ 2 * path_delay(recv, node) + ServiceTime[service] < ServiceDeadline[service]

\* C27: in a COORDINATED replacement pass a service gets no VM at a node when
\* no receiver with accumulated demand for it at that node satisfies
\* 2 * path_delay(recv, node) + service_time < deadline; a service with zero
\* score gets no VM in the first or the second allocation pass.
C27_NoVMWithoutFeasibleDemand ==
    [][(strategy = "COORDINATED" /\ PassInStep) =>
          \A node \in EdgeNodes, service \in Services :
              ~MeetsDeadlineFrom(node, service) =>
                  /\ lastPass'.post[node][service] = 0
                  /\ numberOfServiceInstances'[node][service] = 0]_vars

\* a pass gave service 0 no VM at node 1, where only rcv_11 had demand for it
\* (2 * 3 + 2 is not below 8), and gave another service a VM there
C27_Witness ==
    /\ strategy = "COORDINATED"
    /\ lastPass.ran
    /\ lastPass.snap[1][RecvIndex(11)][1][0] > 0
    /\ lastPass.snap[1][RecvIndex(10)][1][0] = 0
    /\ numberOfServiceInstances[1][0] = 0
    /\ numberOfServiceInstances[1][1] > 0

\* ------------------------------------------------------------------------
\* COORDINATED: whose demand an allocation zeroes
\* ------------------------------------------------------------------------
\* the accumulator as it is when the pass of the step reaches the node: the
\* nodes are taken by depth, node 1 before node 2
UtilBefore(node) == IF Depth[node] = 1 THEN serviceNodeUtil ELSE lastPass'.snap[1]

\* C28: when a pass allocates VMs for service s at node v, it zeroes the
\* accumulator only along the paths of the receivers counted in s's score at
\* v: for a receiver with 2 * path_delay(recv, v) + service_time(s) >=
\* deadline(s), serviceNodeUtil[recv][n][s] is unchanged at every node n.
C28_UncountedDemandKept ==
    [][(strategy = "COORDINATED" /\ PassInStep) =>
          \A v \in EdgeNodes, service \in Services, recv \in Receivers :
              (/\ lastPass'.post[v][service] > 0
               /\ 2 * path_delay(recv, v) + ServiceTime[service]
                      >= ServiceDeadline[service]) =>
                  \A n \in EdgeNodes :
                      lastPass'.snap[v][RecvIndex(recv)][n][service] =
                          UtilBefore(v)[RecvIndex(recv)][n][service]]_vars

\* ------------------------------------------------------------------------
\* COORDINATED: the report of a pass
\* ------------------------------------------------------------------------
\* the services in ascending order, each repeated count[service] times
RECURSIVE InstancesOf(_, _)
InstancesOf(svcs, count) ==
    IF svcs = <<>> THEN <<>>
    ELSE [i \in 1..count[Head(svcs)] |-> Head(svcs)] \o InstancesOf(Tail(svcs), count)

\* instances gained and lost by a node against the previous snapshot
Gained(node) ==
    InstancesOf(AscSeq(Services),
                [sv \in Services |->
                    Max(lastPass'.post[node][sv] - numVMsPerService[node][sv], 0)])

Lost(node) ==
    InstancesOf(AscSeq(Services),
                [sv \in Services |->
                    Max(numVMsPerService[node][sv] - lastPass'.post[node][sv], 0)])

\* C29: at the end of a COORDINATED pass the changes of every non-cloud node
\* against the previous snapshot are reported as (add, evict) pairs: a service
\* whose count fell by d contributes d evictions, the i-th added instance is
\* paired with the i-th evicted one, and only the additions beyond the number
\* of evictions are reported with no eviction.
C29_ReportPairsAddWithEvict ==
    [][(strategy = "COORDINATED" /\ PassInStep) =>
          \A node \in EdgeNodes :
              \E calls \in {lastPass'.reports[node]} :
                  /\ Len(calls) = Len(Gained(node))
                  /\ \A i \in 1..Len(calls) :
                        calls[i].evicted =
                               IF i <= Len(Lost(node)) THEN Lost(node)[i] ELSE NoNode]_vars

\* ------------------------------------------------------------------------
\* MFU, SDF: the number of reassignments of a pass
\* ------------------------------------------------------------------------
\* C30: in MFU and SDF one replacement pass makes at most n_replacements
\* reassign_vm calls at each node, for every n_replacements >= 1 and every
\* combination of resident and candidate lists.
C30_AtMostKReassignments ==
    [][(strategy \in {"MFU", "SDF"} /\ PassInStep) =>
          \A node \in EdgeNodes :
              Len(lastPass'.reports[node]) <= n_replacements]_vars

\* a pass made exactly n_replacements calls at a node that had two resident
\* services to walk through
C30_Witness ==
    /\ strategy \in {"MFU", "SDF"}
    /\ lastPass.ran
    /\ \E node \in EdgeNodes :
          /\ Len(lastPass.reports[node]) = n_replacements
          /\ Cardinality({sv \in Services : lastPass.pre[node][sv] > 0}) = 2

\* ------------------------------------------------------------------------
\* MFU, SDF, HYBRID: the reassignments of a pass
\* ------------------------------------------------------------------------
\* a step in which the replacement pass of an edge strategy runs
EdgePassStep(strat) == strategy = strat /\ PassInStep

\* the placement of a node when the i-th reassign_vm call of the pass is made
RECURSIVE InstAtCall(_, _, _)
InstAtCall(instN, calls, i) ==
    IF i <= 1 THEN instN
    ELSE reassign_vm(InstAtCall(instN, calls, i - 1), calls[i - 1].from, calls[i - 1].to)

\* C31: an MFU pass reassigns a VM from resident r to candidate c only if c's
\* score missed_requests x service_time strictly exceeds r's score
\* running_requests x service_time, r and c differ, r has an instance and c has
\* missed requests; with equal scores no reassignment is made.
C31_MfuReassignsOnStrictlyHigherScore ==
    [][EdgePassStep("MFU") =>
          \A node \in EdgeNodes :
              \E calls \in {lastPass'.reports[node]} :
              \A i \in 1..Len(calls) :
                  \E r \in {calls[i].from} : \E c \in {calls[i].to} :
                      /\ missed_requests[node][c] * ServiceTime[c]
                             > running_requests[node][r] * ServiceTime[r]
                      /\ r # c
                      /\ InstAtCall(numberOfServiceInstances[node], calls, i)[r] >= 1
                      /\ missed_requests[node][c] > 0]_vars

\* the scores SDF gives a resident service and a candidate at a node
SdfResidentScore(node, r) ==
    IF running_requests[node][r] = 0 THEN Frac(1, 1)
    ELSE FracDiv(deadline_metric[node][r], running_requests[node][r])

SdfCandidateScore(node, c) ==
    FracDiv(cand_deadline_metric[node][c], missed_requests[node][c])

\* C32: an SDF pass reassigns a VM from resident r to candidate c only if r's
\* score (deadline_metric / running_requests, 1.0 with no requests) is
\* strictly greater than c's score (cand_deadline_metric / missed_requests)
\* and r and c differ; with equal scores no reassignment is made.
C32_SdfReassignsOnStrictlyLowerSlack ==
    [][EdgePassStep("SDF") =>
          \A node \in EdgeNodes :
              \E calls \in {lastPass'.reports[node]} :
              \A i \in 1..Len(calls) :
                  /\ calls[i].from # calls[i].to
                  /\ missed_requests[node][calls[i].to] > 0
                  /\ FracLess(SdfCandidateScore(node, calls[i].to),
                              SdfResidentScore(node, calls[i].from))]_vars

\* the average slack HYBRID holds for a service at a node when a pass starts
SlackAt(node, service) ==
    HybridDelay(service, numberOfServiceInstances[node], running_requests[node],
                missed_requests[node], deadline_metric[node],
                cand_deadline_metric[node])

\* C33: a HYBRID pass reassigns a VM from running service r to missed service
\* m only if the missed utilisation of m is strictly greater than the
\* normalised running utilisation of r, the average slack of r is greater than
\* that of m, and the average slack of m is positive; with equal utilisations
\* no reassignment is made.
C33_HybridReassignsOnStrictlyHigherUtil ==
    [][EdgePassStep("HYBRID") =>
          \A node \in EdgeNodes :
              \E calls \in {lastPass'.reports[node]} :
              \A i \in 1..Len(calls) :
                  \E r \in {calls[i].from} : \E m \in {calls[i].to} :
                      /\ FracLess(HybridRunningUtil(r, numberOfServiceInstances[node],
                                                    running_requests[node]),
                                  Frac(HybridMissedUtil(m, missed_requests[node]), 1))
                      /\ FracLess(SlackAt(node, m), SlackAt(node, r))
                      /\ FracLess(Frac(0, 1), SlackAt(node, m))]_vars

\* the services resident at a node when a pass starts
ResidentAt(node) == {sv \in Services : numberOfServiceInstances[node][sv] > 0}

\* C34: in one HYBRID pass at a node each resident service gives up at most
\* one VM and each service gains at most one, so the pass makes at most as
\* many reassign_vm calls as services are resident at its start.
C34_HybridOneVMPerService ==
    [][EdgePassStep("HYBRID") =>
          \A node \in EdgeNodes :
              \E calls \in {lastPass'.reports[node]} :
                  /\ \A i, j \in 1..Len(calls) :
                        i # j => /\ calls[i].from # calls[j].from
                                 /\ calls[i].to # calls[j].to
                  /\ \A i \in 1..Len(calls) : calls[i].from \in ResidentAt(node)
                  /\ Len(calls) <= Cardinality(ResidentAt(node))]_vars

\* a pass in which both resident services of a node gave up their VM
C34_Witness ==
    /\ strategy = "HYBRID"
    /\ lastPass.ran
    /\ \E node \in EdgeNodes :
          /\ Len(lastPass.reports[node]) = 2
          /\ Cardinality({sv \in Services : lastPass.pre[node][sv] > 0}) = 2

\* ------------------------------------------------------------------------
\* HYBRID, MFU, SDF: the slack accumulators
\* ------------------------------------------------------------------------
\* a step that handles the REQUEST at the head of the queue at an edge spot
EdgeSpotStep ==
    /\ strategy \in EdgeStrategies
    /\ Running
    /\ events # <<>>
    /\ Head(events).status = REQUEST
    /\ Head(events).node \in EdgeNodes
    /\ flows' = flows
    /\ events' # events

\* the entries of an accumulator that differ in value between two of its states
ChangedIn(before, after) ==
    {p \in EdgeNodes \X Services : ~FracEq(after[p[1]][p[2]], before[p[1]][p[2]])}

\* C35: handling a REQUEST at an intermediate node changes at most one slack
\* accumulator and only by a positive amount: deadline_metric[node][service]
\* grows when admit_task accepted, cand_deadline_metric[node][service] when
\* it rejected or the service is not resident, nothing when the slack is
\* <= 0; both accumulators are >= 0 and never decrease between two passes.
C35_SlackAccumulatorsGrowOnly ==
    [][(strategy \in EdgeStrategies) =>
          \E dm0 \in {IF PassInStep THEN ZeroMetric ELSE deadline_metric} :
          \E cm0 \in {IF PassInStep THEN ZeroMetric ELSE cand_deadline_metric} :
          \E run0 \in {IF PassInStep THEN ZeroCounts ELSE running_requests} :
              /\ \A n \in EdgeNodes, sv \in Services :
                    /\ deadline_metric'[n][sv].num >= 0
                    /\ cand_deadline_metric'[n][sv].num >= 0
                    /\ ~FracLess(deadline_metric'[n][sv], dm0[n][sv])
                    /\ ~FracLess(cand_deadline_metric'[n][sv], cm0[n][sv])
              /\ ~EdgeSpotStep =>
                    /\ ChangedIn(dm0, deadline_metric') = {}
                    /\ ChangedIn(cm0, cand_deadline_metric') = {}
              /\ EdgeSpotStep =>
                    \E e \in {Head(events)} :
                    \E slack \in {e.deadline - e.time - e.rtt_delay
                                      - ServiceTime[e.service]} :
                    \E accepted \in {running_requests'[e.node][e.service]
                                         = run0[e.node][e.service] + 1} :
                        /\ ChangedIn(dm0, deadline_metric') =
                               IF accepted /\ slack > 0
                               THEN {<<e.node, e.service>>} ELSE {}
                        /\ ChangedIn(cm0, cand_deadline_metric') =
                               IF ~accepted /\ slack > 0
                               THEN {<<e.node, e.service>>} ELSE {}
                        /\ accepted =>
                               numberOfServiceInstances'[e.node][e.service] >= 1
    ]_vars

\* slack is on record for an accepted and for a turned-away request, and a
\* turned-away request without positive slack left nothing
C35_Witness ==
    /\ strategy \in EdgeStrategies
    /\ lastPass.count = 0
    /\ \E n \in EdgeNodes, sv \in Services :
          deadline_metric[n][sv].num > 0 \/ cand_deadline_metric[n][sv].num > 0
    /\ \E n \in EdgeNodes, sv \in Services :
          missed_requests[n][sv] > 0 /\ cand_deadline_metric[n][sv].num = 0

\* ------------------------------------------------------------------------
\* LRU, HYBRID, MFU, SDF: times and round-trip delays of forwarded events
\* ------------------------------------------------------------------------
DistributedStrategies == EdgeStrategies \cup {"LRU"}

\* the time a flow was issued at: its deadline is the issue time plus the
\* deadline of its service
IssueTime(e) == session'[e.flow_id].deadline - ServiceDeadline[e.service]

\* the neighbour of node on the way down to receiver
HopToward(node, receiver) ==
    CHOOSE h \in AllNodes :
        /\ InSeq(h, Chain(receiver))
        /\ h \in DOMAIN Parent
        /\ Parent[h] = node

\* the step delivers a RESPONSE at a node other than its receiver
ResponseInTransit ==
    /\ strategy \in DistributedStrategies
    /\ Running
    /\ events # <<>>
    /\ Head(events).status = RESPONSE
    /\ Head(events).node # Head(events).receiver
    /\ flows' = flows
    /\ events' # events

\* C36: for a flow issued at time t0 with rtt_delay 0, every REQUEST event
\* delivered at a node n has time = t0 + path_delay(receiver, n) and
\* rtt_delay = 2 * path_delay(receiver, n); a RESPONSE is forwarded exactly
\* one hop toward the receiver with rtt_delay and deadline unchanged.
C36_ForwardedEventsCarryPathDelay ==
    [][(strategy \in DistributedStrategies) =>
          /\ \A i \in 1..Len(events') :
                events'[i].status = REQUEST =>
                    /\ events'[i].deadline = session'[events'[i].flow_id].deadline
                    /\ events'[i].time =
                           IssueTime(events'[i])
                               + path_delay(events'[i].receiver, events'[i].node)
                    /\ events'[i].rtt_delay =
                           2 * path_delay(events'[i].receiver, events'[i].node)
          /\ ResponseInTransit =>
                \E e \in {Head(events)} :
                \E h \in {HopToward(e.node, e.receiver)} :
                \E i \in 1..Len(events') :
                    /\ events'[i] = [e EXCEPT !.node = h,
                                              !.time = e.time + UpLinkDelay[h]]
                    /\ RemoveAt(events', i) = Tail(events)
    ]_vars

\* a request has reached the origin three hops up, and a response that node 1
\* or the origin produced has been passed down to its receiver
C36_Witness ==
    /\ strategy \in DistributedStrategies
    /\ \E i \in 1..Len(events) :
          /\ events[i].status = REQUEST
          /\ events[i].node = CloudNode
          /\ events[i].receiver \in {10, 11}
    /\ \E i \in 1..Len(events) :
          /\ events[i].status = RESPONSE
          /\ events[i].node = events[i].receiver
          /\ events[i].receiver \in {10, 11}
          /\ events[i].rtt_delay >= 2 * path_delay(events[i].receiver, 1)

\* ------------------------------------------------------------------------
\* LRU: a REQUEST that a compute node turns away
\* ------------------------------------------------------------------------
\* the step delivers the REQUEST at the head of the queue at an edge spot
LruSpotStep ==
    /\ strategy = "LRU"
    /\ Running
    /\ events # <<>>
    /\ Head(events).status = REQUEST
    /\ Head(events).node \in EdgeNodes
    /\ flows' = flows
    /\ events' # events

\* what admit_task answers for event e in the current state
AdmitAnswer(e) ==
    admit_task(e.node, e.service, e.time, e.flow_id, e.deadline, e.receiver,
               e.rtt_delay, numberOfServiceInstances, coreFinishTime[e.node],
               taskQueue[e.node], upcomingTaskQueue[e.node])

\* C37: whenever admit_task rejects a REQUEST at an intermediate compute node,
\* exactly one REQUEST is forwarded to the next hop toward the origin with
\* rtt_delay increased by 2 * delay, whether or not a service was evicted; a
\* rejection whose reason is not NO_INSTANCES changes no placement; when
\* admit_task accepts, get_content is called and nothing is forwarded.
C37_LruRejectionForwardsOnce ==
    [][LruSpotStep =>
          \E e \in {Head(events)} :
          \E a \in {AdmitAnswer(e)} :
              IF a.ret
              THEN /\ lruCache'[e.node] = get_content(lruCache[e.node], e.service)
                   /\ \A i \in 1..Len(events') :
                         events'[i].flow_id = e.flow_id => events'[i].status # REQUEST
              ELSE /\ \E i \in 1..Len(events') :
                         /\ events'[i] =
                                [e EXCEPT !.node = Parent[e.node],
                                          !.time = e.time + UpLinkDelay[e.node],
                                          !.rtt_delay =
                                              e.rtt_delay + 2 * UpLinkDelay[e.node]]
                         /\ RemoveAt(events', i) = Tail(events)
                   /\ a.reason # NO_INSTANCES =>
                         numberOfServiceInstances' = numberOfServiceInstances
    ]_vars

\* ------------------------------------------------------------------------
\* HYBRID, MFU, SDF: every reassignment moves an existing VM
\* ------------------------------------------------------------------------
\* C38: every reassign_vm call of a replacement pass takes the VM from a
\* service that has at least one instance at that node at the moment of the
\* call and gives it to a different service, so every service_instances[s]
\* stays >= 0 and the sum at each non-cloud spot equals its value before the
\* pass.
C38_ReassignmentsMoveExistingVMs ==
    [][(strategy \in EdgeStrategies /\ PassInStep) =>
          \A node \in EdgeNodes :
              \E calls \in {lastPass'.reports[node]} :
              \E before \in {numberOfServiceInstances[node]} :
              \E after \in {numberOfServiceInstances'[node]} :
                  /\ \A i \in 1..Len(calls) :
                        /\ InstAtCall(before, calls, i)[calls[i].from] >= 1
                        /\ calls[i].from # calls[i].to
                  /\ after = InstAtCall(before, calls, Len(calls) + 1)
                  /\ \A sv \in Services : after[sv] >= 0
                  /\ SumOver(after, Services) = SumOver(before, Services)
    ]_vars

\* a pass has taken the only VM of a service, which is left with none
C38_Witness ==
    /\ strategy \in EdgeStrategies
    /\ lastPass.ran
    /\ \E node \in EdgeNodes :
          /\ Len(lastPass.reports[node]) >= 1
          /\ numberOfServiceInstances[node][lastPass.reports[node][1].from] = 0
          /\ SumOver(numberOfServiceInstances[node], Services) = NumVMs[node]

\* ------------------------------------------------------------------------
\* COORDINATED: the snapshot of the placement
\* ------------------------------------------------------------------------
\* C39: under COORDINATED, at every event boundary numVMsPerService[node][s]
\* equals the spot's current service_instances[s] for every non-cloud node
\* and service: set by the constructor, re-established by every pass.
C39_SnapshotEqualsPlacement ==
    strategy = "COORDINATED" =>
        \A node \in EdgeNodes, sv \in Services :
            numVMsPerService[node][sv] = numberOfServiceInstances[node][sv]

\* a pass has changed the placement the constructor made
C39_Witness ==
    /\ strategy = "COORDINATED"
    /\ lastPass.ran
    /\ \E node \in EdgeNodes, sv \in Services :
          /\ numberOfServiceInstances[node][sv] # InitialPlacement[node][sv]
          /\ numVMsPerService[node][sv] = numberOfServiceInstances[node][sv]

\* ------------------------------------------------------------------------
\* COORDINATED: VM counts follow the score order
\* ------------------------------------------------------------------------
\* the score of a service at a node for the accumulator util: the demand of
\* the receivers from which the deadline can be met
ScoreOf(util, node, service) ==
    SumOver([ap \in RecvIndices |->
                IF 2 * path_delay(RecvOfIndex(ap), node) + ServiceTime[service]
                       < ServiceDeadline[service]
                THEN util[ap][node][service] ELSE 0], RecvIndices)

\* C40: after a COORDINATED pass has processed node v, VM counts follow the
\* score order: score(s1) > score(s2) at v implies service_instances[s1] >=
\* service_instances[s2] at v; and if at least one service has a positive
\* score at v, all num_VMs of v are allocated.
C40_VMsFollowScoreOrder ==
    [][(strategy = "COORDINATED" /\ PassInStep) =>
          \A v \in EdgeNodes :
              \E util \in {UtilBefore(v)} :
              \E after \in {numberOfServiceInstances'[v]} :
                  /\ \A s1, s2 \in Services :
                        ScoreOf(util, v, s1) > ScoreOf(util, v, s2) =>
                            after[s1] >= after[s2]
                  /\ (\E sv \in Services : ScoreOf(util, v, sv) > 0) =>
                        SumOver(after, Services) = NumVMs[v]
    ]_vars

\* node 2 was processed with two services that each had the demand for both
\* VMs, and gave both to the one with the higher score
C40_Witness ==
    /\ strategy = "COORDINATED"
    /\ lastPass.ran
    /\ \E s1, s2 \in Services :
          /\ ScoreOf(lastPass.snap[1], 2, s1) > ScoreOf(lastPass.snap[1], 2, s2)
          /\ ScoreOf(lastPass.snap[1], 2, s2) >= 3
          /\ numberOfServiceInstances[2][s1] = NumVMs[2]
          /\ numberOfServiceInstances[2][s2] = 0

====
